---- MODULE Spec2Model ----
(***************************************************************************)
(* Model of the cinema booking server's store: StringIdMap (the name       *)
(* tables), CinemaRoom (the seats of one movie,theater pair) and           *)
(* BookingData (the store with its store-wide shared_mutex and the         *)
(* per-room shared_mutex).  Threads call the public methods of             *)
(* BookingData; every method is cut at its lock acquisitions and between   *)
(* its loops, so that the interleavings the locks allow are all there.     *)
(***************************************************************************)
EXTENDS Integers, Sequences, FiniteSets, TLC

VARIABLES
    movie_list,                 \* BookingData::movie_list   (StringIdMap)
    theater_list,               \* BookingData::theater_list (StringIdMap)
    rooms,                      \* BookingData::rooms: movie id -> theater id -> CinemaRoom
    theaters_per_movie_cache,   \* BookingData::theaters_per_movie_cache
    mutex,                      \* BookingData::mutex (std::shared_mutex)
    pc,                         \* where each thread is in the method it runs
    call,                       \* the arguments, locals and return value of that method
    serial,                     \* history: the rooms' seats in the serial run of the bookings
    accepted,                   \* history: per room and seat, the calls that took it (and return ACCEPTED)
    ncalls,                     \* history: the calls begun so far
    issued,                     \* history: the ids each StringIdMap has returned from add
    setup                       \* the threads and the input sets of this run (never changes)

vars == <<movie_list, theater_list, rooms, theaters_per_movie_cache, mutex,
          pc, call, serial, accepted, ncalls, issued, setup>>

----------------------------------------------------------------------------
(* Bounds of the model.                                                    *)

\* Threads of the concurrent runs.
MaxThreads == 2
\* Ids a StringIdMap issues before the model stops adding to it.
MaxId == 2
\* Names that exist, and names per add call.
MaxNames == 2
\* Calls of the store's methods in a concurrent run.
MaxCalls == 4
\* Seats 0..MaxSeat-1 are the ones the book requests of the concurrent runs
\* name; the requests of the runs of one room name the seats 0..MaxSeat+1
\* (and SEATS_PER_ROOM and SEATS_PER_ROOM+5, which no room has).
MaxSeat == 1

(* Constants of the program.                                               *)
SEATS_PER_ROOM == 20
CBS_EOL == "\r\n"

NoThread == 0

----------------------------------------------------------------------------
(* Helpers: the containers of the standard library.                        *)

Range(s) == {s[i] : i \in DOMAIN s}

\* The sequences over S of length at most n that name nothing twice: the
\* orders in which an unordered_set of at most n elements is iterated.
SeqsNoRep(S, n) ==
    {s \in UNION {[1..k -> S] : k \in 0..n} :
        \A i, j \in DOMAIN s : i # j => s[i] # s[j]}

\* The orders in which an unordered container with the keys S is iterated.
Orders(S) == {s \in [1..Cardinality(S) -> S] : Range(s) = S}

EmptyMap == <<>>

\* std::unordered_map operator[] / emplace of a key.
MapPut(f, k, v) == [x \in DOMAIN f \cup {k} |-> IF x = k THEN v ELSE f[x]]

\* std::shared_mutex: at most one writer, or any number of readers.
FreeMutex == [writer |-> NoThread, readers |-> {}]
\* std::shared_lock lock(mutex) does not wait.
CanLockShared(m) == m.writer = NoThread
\* std::unique_lock lock(mutex) does not wait.
CanLockUnique(m) == m.writer = NoThread /\ m.readers = {}
LockShared(m, t) == [m EXCEPT !.readers = @ \cup {t}]
LockUnique(m, t) == [m EXCEPT !.writer = t]
\* The unlock that leaves the mutex held.
UnlockForgotten(m, t) == m
Unlock(m, t) ==
    [writer |-> IF m.writer = t THEN NoThread ELSE m.writer,
     readers |-> m.readers \ {t}]

----------------------------------------------------------------------------
(* StringIdMap (stringidmap.cpp).                                          *)

\* StringIdMap::StringIdMap
StringIdMap_new ==
    [next_id |-> 1, id_strings |-> EmptyMap, strings |-> {}, cached_list |-> ""]

\* The string StringIdMap::rebuild_cache streams out, iterating id_strings
\* in the order it.
RECURSIVE StringIdMap_render(_, _)
StringIdMap_render(id_strings, it) ==
    IF it = <<>> THEN ""
    ELSE ToString(Head(it)) \o "," \o id_strings[Head(it)] \o CBS_EOL
         \o StringIdMap_render(id_strings, Tail(it))

\* StringIdMap::rebuild_cache, id_strings iterated in the order it.
StringIdMap_rebuild_cache(self, it) ==
    [self EXCEPT !.cached_list = StringIdMap_render(self.id_strings, it)]

\* The loop that looks at the first name only.
AddChecksFirstNameOnly(self, strings_in) ==
    strings_in # <<>> /\ Head(strings_in) \in self.strings

\* The add without its first loop.
AddNeverThrows(self, strings_in) == FALSE

\* StringIdMap::add, first loop: some name of the batch is in strings.
StringIdMap_add_throws(self, strings_in) ==
    \E i \in DOMAIN strings_in : strings_in[i] \in self.strings

\* The vector filled from its front.
InsertedIdsDescending(self, strings_in) ==
    [i \in 1..Len(strings_in) |-> self.next_id + Len(strings_in) - i]

\* StringIdMap::add, the vector returned: one id per name, in the order the
\* batch is iterated.
StringIdMap_inserted_ids(self, strings_in) ==
    [i \in 1..Len(strings_in) |-> self.next_id + i - 1]

\* The loop that never advances next_id.
InsertForgetsCounter(self, strings_in) ==
    [self EXCEPT
        !.strings = @ \cup Range(strings_in),
        !.id_strings =
            [id \in DOMAIN self.id_strings
                    \cup {self.next_id + i - 1 : i \in 1..Len(strings_in)} |->
                IF id >= self.next_id /\ id < self.next_id + Len(strings_in)
                THEN strings_in[id - self.next_id + 1]
                ELSE self.id_strings[id]]]

\* The loop that fills id_strings and not strings.
InsertForgetsStrings(self, strings_in) ==
    [self EXCEPT
        !.id_strings =
            [id \in DOMAIN self.id_strings
                    \cup {self.next_id + i - 1 : i \in 1..Len(strings_in)} |->
                IF id >= self.next_id /\ id < self.next_id + Len(strings_in)
                THEN strings_in[id - self.next_id + 1]
                ELSE self.id_strings[id]],
        !.next_id = @ + Len(strings_in)]

\* StringIdMap::add, second loop (before rebuild_cache).
StringIdMap_insert(self, strings_in) ==
    [self EXCEPT
        !.strings = @ \cup Range(strings_in),
        !.id_strings =
            [id \in DOMAIN self.id_strings
                    \cup {self.next_id + i - 1 : i \in 1..Len(strings_in)} |->
                IF id >= self.next_id /\ id < self.next_id + Len(strings_in)
                THEN strings_in[id - self.next_id + 1]
                ELSE self.id_strings[id]],
        !.next_id = @ + Len(strings_in)]

\* StringIdMap::add when it does not throw; it is the order in which the
\* rebuild iterates id_strings.
StringIdMap_add(self, strings_in, it) ==
    StringIdMap_rebuild_cache(StringIdMap_insert(self, strings_in), it)

\* StringIdMap::has_id
StringIdMap_has_id(self, string_id) == string_id \in DOMAIN self.id_strings

\* StringIdMap::get_sorted_keys
StringIdMap_get_sorted_keys(self) == DOMAIN self.id_strings

\* The clear that forgets the set of names.
ClearKeepsNames(self) ==
    [self EXCEPT !.id_strings = EmptyMap, !.cached_list = ""]

\* The clear that starts the ids again.
ClearResetsCounter(self) ==
    [self EXCEPT !.id_strings = EmptyMap, !.strings = {}, !.cached_list = "",
                 !.next_id = 1]

\* The clear that leaves the listing as it is.
ClearForgetsRebuild(self) ==
    [self EXCEPT !.id_strings = EmptyMap, !.strings = {}]

\* The clear that empties the set of names and leaves the entries.
ClearEmptiesNamesOnly(self) == [self EXCEPT !.strings = {}]

\* StringIdMap::clear
StringIdMap_clear(self) ==
    StringIdMap_rebuild_cache(
        [self EXCEPT !.id_strings = EmptyMap, !.strings = {}], <<>>)

----------------------------------------------------------------------------
(* CinemaRoom (bookingdata.cpp).                                           *)

\* The string CinemaRoom::rebuild_cache streams out from index idx on.
RECURSIVE CinemaRoom_render(_, _, _)
CinemaRoom_render(seat_available, idx, first) ==
    IF idx >= SEATS_PER_ROOM THEN CBS_EOL
    ELSE IF seat_available[idx]
         THEN (IF first THEN "" ELSE ",") \o ToString(idx)
              \o CinemaRoom_render(seat_available, idx + 1, FALSE)
         ELSE CinemaRoom_render(seat_available, idx + 1, first)

\* CinemaRoom::rebuild_cache
CinemaRoom_rebuild_cache(self) ==
    [self EXCEPT !.seat_cache = CinemaRoom_render(self.seat_available, 0, TRUE)]

\* CinemaRoom::CinemaRoom
CinemaRoom_new ==
    CinemaRoom_rebuild_cache(
        [seat_available |-> [i \in 0..(SEATS_PER_ROOM - 1) |-> TRUE],
         seat_cache |-> "",
         mutex |-> FreeMutex])

\* The loop that never looks whether a seat is taken.
CheckIgnoresTaken(seat_available, seats_to_book) ==
    IF \E i \in Range(seats_to_book) : i >= SEATS_PER_ROOM
    THEN "INVALID"
    ELSE "OK"

\* The book_seats that refuses a request that names no seat.
CheckRejectsEmpty(seat_available, seats_to_book) ==
    IF seats_to_book = <<>> THEN "INVALID"
    ELSE IF \E i \in Range(seats_to_book) : i >= SEATS_PER_ROOM THEN "INVALID"
    ELSE IF \E i \in Range(seats_to_book) : ~seat_available[i] THEN "NOT_AVAILABLE"
    ELSE "OK"

\* The loop that looks at the first seat only.
CheckFirstSeatOnly(seat_available, seats_to_book) ==
    IF seats_to_book = <<>> THEN "OK"
    ELSE IF Head(seats_to_book) >= SEATS_PER_ROOM THEN "INVALID"
    ELSE IF ~seat_available[Head(seats_to_book)] THEN "NOT_AVAILABLE"
    ELSE "OK"

\* CinemaRoom::book_seats, first loop: the seats are looked at in the order
\* the set is iterated, and the first one that is no seat or is taken ends
\* the loop.
RECURSIVE CinemaRoom_check(_, _)
CinemaRoom_check(seat_available, seats_to_book) ==
    IF seats_to_book = <<>> THEN "OK"
    ELSE IF Head(seats_to_book) >= SEATS_PER_ROOM THEN "INVALID"
    ELSE IF ~seat_available[Head(seats_to_book)] THEN "NOT_AVAILABLE"
    ELSE CinemaRoom_check(seat_available, Tail(seats_to_book))

\* The loop that stops after the first seat.
MarkFirstSeatOnly(seat_available, seats_to_book) ==
    [i \in DOMAIN seat_available |->
        IF seats_to_book # <<>> /\ i = Head(seats_to_book) THEN FALSE
        ELSE seat_available[i]]

\* The loop that leaves out the first seat.
MarkAllButFirstSeat(seat_available, seats_to_book) ==
    [i \in DOMAIN seat_available |->
        IF seats_to_book # <<>> /\ i \in Range(Tail(seats_to_book)) THEN FALSE
        ELSE seat_available[i]]

\* CinemaRoom::book_seats, second loop.
CinemaRoom_mark(seat_available, seats_to_book) ==
    [i \in DOMAIN seat_available |->
        IF i \in Range(seats_to_book) THEN FALSE ELSE seat_available[i]]

\* CinemaRoom::book_seats as a whole, without its lock: the value returned.
CinemaRoom_book_result(seat_available, seats_to_book) ==
    IF CinemaRoom_check(seat_available, seats_to_book) = "OK"
    THEN "ACCEPTED"
    ELSE CinemaRoom_check(seat_available, seats_to_book)

\* CinemaRoom::book_seats as a whole, without its lock: the seats it leaves.
CinemaRoom_book_seats(seat_available, seats_to_book) ==
    IF CinemaRoom_check(seat_available, seats_to_book) = "OK"
    THEN CinemaRoom_mark(seat_available, seats_to_book)
    ELSE seat_available

\* The seats of a room that are available.
Available(seat_available) == {i \in DOMAIN seat_available : seat_available[i]}

----------------------------------------------------------------------------
(* BookingData (bookingdata.cpp): the state a thread keeps during a call.  *)

Names == {"N" \o ToString(i) : i \in 1..MaxNames}
Ids == 1..MaxId
\* Seat numbers that are no seat of a room.
NoSeats == {SEATS_PER_ROOM, SEATS_PER_ROOM + 5}

NoRoom == [seat_available |-> <<>>, seat_cache |-> ""]
NoTable == [next_id |-> 0, id_strings |-> EmptyMap, strings |-> {}, cached_list |-> ""]
NoStore == [movie_list |-> NoTable, theater_list |-> NoTable, rooms |-> EmptyMap,
            theaters_per_movie_cache |-> EmptyMap]
\* No StringIdMap has returned an id; none has been cleared.  The cleared
\* fields say how many of the ids were returned before the last clear.
NoIssue == [movie_list |-> <<>>, theater_list |-> <<>>,
            movie_list_cleared |-> 0, theater_list_cleared |-> 0]

\* The members of BookingData, without its mutex.
Store ==
    [movie_list |-> movie_list, theater_list |-> theater_list, rooms |-> rooms,
     theaters_per_movie_cache |-> theaters_per_movie_cache]

NoCall ==
    [op |-> "", movie_id |-> 0, theater_id |-> 0, seats |-> <<>>,
     names |-> <<>>, theaters |-> {},
     result |-> "", value |-> "", ids |-> <<>>, keys |-> {},
     \* history: the room when the call found it and when it locked it, the
     \* table when the call locked the store, the serial run's return value,
     \* and whether no other call has booked in the room since this one began;
     \* the store when a writer locked it
     start |-> NoRoom, pre |-> NoRoom, pre_table |-> NoTable,
     serial_result |-> "", alone |-> TRUE, pre_store |-> NoStore,
     \* the cache the listing in value was read from; history: the room when
     \* book_seats returned
     ref |-> <<>>, post |-> NoRoom,
     \* handle_command: the seat numbers of the book request as the client
     \* wrote them, the CommandResult of execute() and the responses written
     \* to the stream
     request |-> <<>>, body |-> "", status |-> "", reply |-> <<>>]

Threads == setup.threads

\* The rebuild that writes the new listing into the string the cache holds.
AssignInPlace(held, ref, content) ==
    IF held.ref = ref THEN [held EXCEPT !.value = content, !.body = content]
    ELSE held

\* cache = std::make_shared<std::string>(ss.str()), seen by the caller
\* held that may hold the pointer the cache ref had: the new listing is a
\* new string, the one handed out is not written.
std_make_shared(held, ref, content) == held

\* rooms.at(movie_id).at(theater_id) does not throw.
HasRoom(rms, movie_id, theater_id) ==
    movie_id \in DOMAIN rms /\ theater_id \in DOMAIN rms[movie_id]

RoomKeys(rms) == UNION {{<<m, th>> : th \in DOMAIN rms[m]} : m \in DOMAIN rms}

\* The seats and the listing of a room, without its mutex.
RoomState(room) == [seat_available |-> room.seat_available, seat_cache |-> room.seat_cache]

\* The return that leaves the rooms locked.
ReleaseRoomsForgotten(rms, t) == rms

\* Every mutex a returning thread holds is released (the destructors of its
\* std::shared_lock / std::unique_lock objects).
ReleaseRooms(rms, t) ==
    [m \in DOMAIN rms |->
        [th \in DOMAIN rms[m] |-> [rms[m][th] EXCEPT !.mutex = Unlock(@, t)]]]

\* The threads that are inside a method of BookingData holding its mutex.
InStore(t) == pc[t] \notin {"idle", "reply", "replied"}

\* std::shared_lock lock(mutex) of the methods that read the store does not
\* wait; of book_seats; and the store's mutex once it is taken.
BookingData_shared_lock_ready == CanLockShared(mutex)
\* The booking that takes the store's mutex for itself alone.
BookTakesUniqueLock == CanLockUnique(mutex)
BookingData_book_seats_lock_ready == CanLockShared(mutex)
\* The lock an unnamed std::shared_lock would be: released at once.
LockForgotten(t) == mutex
BookingData_shared_lock(t) == LockShared(mutex, t)

\* The writer that does not wait for the readers.
UniqueLockSkipsReaders == CanLockShared(mutex)
\* std::unique_lock lock(mutex) of add_movies, add_theaters,
\* add_theaters_to_movie and clear does not wait.
BookingData_unique_lock_ready == CanLockUnique(mutex)

\* The booking that enters the room whoever is in it.
RoomLockNeverWaits(self) == TRUE
\* std::unique_lock lock(mutex) of CinemaRoom::book_seats does not wait.
CinemaRoom_book_seats_lock_ready(self) == CanLockUnique(self.mutex)
\* The get_seats that reads the listing whoever is in the room.
SeatsLockNeverWaits(self) == TRUE
\* std::shared_lock lock(mutex) of CinemaRoom::get_seats does not wait.
CinemaRoom_get_seats_lock_ready(self) == CanLockShared(self.mutex)
WriterOps == {"add_movies", "add_theaters", "add_theaters_to_movie", "clear"}
ReaderOps == {"get_movies", "get_sorted_movie_ids", "get_theaters_for_movie",
              "get_sorted_theater_ids", "get_available_seats", "book_seats"}

----------------------------------------------------------------------------
(* BookingData::rebuild_cache(MovieId).                                    *)

\* movie_list.get_string, rooms.at or theater_list.get_string throws.
BookingData_rebuild_cache_throws(ml, tl, rms, movie_id) ==
    \/ ~StringIdMap_has_id(ml, movie_id)
    \/ movie_id \notin DOMAIN rms
    \/ \E th \in DOMAIN rms[movie_id] : ~StringIdMap_has_id(tl, th)

\* The string streamed out, rooms.at(movie_id) iterated in the order it.
RECURSIVE BookingData_render(_, _)
BookingData_render(tl, it) ==
    IF it = <<>> THEN ""
    ELSE ToString(Head(it)) \o "," \o tl.id_strings[Head(it)] \o CBS_EOL
         \o BookingData_render(tl, Tail(it))

\* theaters_per_movie_cache[movie_id] = the string.
BookingData_rebuild_cache(cache, tl, movie_id, it) ==
    MapPut(cache, movie_id, BookingData_render(tl, it))

\* BookingData::add_movies, the loop over inserted_ids: an empty map of
\* rooms and the listing of no theater for each id.
\* The add_movies that creates no sub-map of rooms.
AddMoviesForgetsRooms(rms, inserted_ids) == rms

RECURSIVE BookingData_add_movies_rooms(_, _)
BookingData_add_movies_rooms(rms, inserted_ids) ==
    IF inserted_ids = <<>> THEN rms
    ELSE BookingData_add_movies_rooms(MapPut(rms, Head(inserted_ids), EmptyMap),
                                      Tail(inserted_ids))

\* The add_movies that makes no theater listing for the new movies.
AddMoviesForgetsListing(cache, tl, inserted_ids) == cache

\* The add_movies that rebuilds the listings from none, as rebuild_cache()
\* starts: the movies that were there lose theirs.
AddMoviesListingsAnew(cache, tl, inserted_ids) ==
    [m \in Range(inserted_ids) |-> ""]

RECURSIVE BookingData_add_movies_cache(_, _, _)
BookingData_add_movies_cache(cache, tl, inserted_ids) ==
    IF inserted_ids = <<>> THEN cache
    ELSE BookingData_add_movies_cache(
            BookingData_rebuild_cache(cache, tl, Head(inserted_ids), <<>>),
            tl, Tail(inserted_ids))

\* The rooms of a movie sharing one CinemaRoom: a booking marks them all.
BookMarksEveryRoom(rms, movie_id, theater_id, seats) ==
    [rms EXCEPT ![movie_id] =
        [th \in DOMAIN rms[movie_id] |->
            CinemaRoom_rebuild_cache(
                [rms[movie_id][th] EXCEPT !.seat_available =
                    CinemaRoom_mark(@, seats)])]]

\* BookingData::book_seats: room->book_seats(seats), where room is
\* rooms.at(movie_id).at(theater_id): its second loop.
BookingData_book_seats_mark(rms, movie_id, theater_id, seats) ==
    [rms EXCEPT ![movie_id][theater_id].seat_available = CinemaRoom_mark(@, seats)]

\* The booking that returns ACCEPTED without rebuilding the listing.
BookCacheForgotten(rms, movie_id, theater_id) == rms

\* BookingData::book_seats: room->book_seats(seats), the rebuild_cache()
\* after the second loop.
BookingData_book_seats_cache(rms, movie_id, theater_id) ==
    [rms EXCEPT ![movie_id][theater_id] = CinemaRoom_rebuild_cache(@)]

\* BookingData::add_theaters_to_movie, first loop: a theater of the batch
\* already displays the movie.
BookingData_already_displaying(rms, movie_id, theaters) ==
    \E th \in theaters : th \in DOMAIN rms[movie_id]

\* The assignment that makes all the rooms of the movie anew.
CreateRoomsAnew(rms, movie_id, theaters) ==
    [rms EXCEPT ![movie_id] =
        [th \in DOMAIN rms[movie_id] \cup theaters |-> CinemaRoom_new]]

\* BookingData::add_theaters_to_movie, second loop: emplace a new room per
\* theater of the batch.
BookingData_create_rooms(rms, movie_id, theaters) ==
    [rms EXCEPT ![movie_id] =
        [th \in DOMAIN rms[movie_id] \cup theaters |->
            IF th \in DOMAIN rms[movie_id] THEN rms[movie_id][th] ELSE CinemaRoom_new]]

----------------------------------------------------------------------------
(* The state after construction: BookingData::BookingData.                 *)

InitStore ==
    /\ movie_list = StringIdMap_new
    /\ theater_list = StringIdMap_new
    /\ rooms = EmptyMap
    /\ theaters_per_movie_cache = EmptyMap
    /\ mutex = FreeMutex
    /\ serial = EmptyMap
    /\ accepted = EmptyMap
    /\ pc = [t \in setup.threads |-> "idle"]
    /\ call = [t \in setup.threads |-> NoCall]
    /\ ncalls = 0
    /\ issued = NoIssue

\* Threads calling the store concurrently: one name, seats the rooms have.
Init ==
    /\ setup = [threads |-> 1..MaxThreads, calls |-> MaxCalls,
                names |-> {"N1"}, batch |-> 1,
                theater_names |-> {"N1"}, theater_batch |-> 1,
                movie_ids |-> {1}, theater_ids |-> {1, 2}, ntheaters |-> 2,
                seats |-> 0..(MaxSeat - 1), nseats |-> MaxSeat,
                readers |-> {"get_movies"}, http |-> FALSE]
    /\ InitStore

\* One thread calling the store: the movie table with all the names in
\* batches, the theater table with one name.
InitTable ==
    /\ setup = [threads |-> {1}, calls |-> 0,
                names |-> Names, batch |-> MaxNames,
                theater_names |-> {"T1"}, theater_batch |-> 1,
                movie_ids |-> {1}, theater_ids |-> {1}, ntheaters |-> 1,
                seats |-> {0}, nseats |-> 1,
                readers |-> {"get_movies", "get_sorted_movie_ids",
                             "get_theaters_for_movie", "get_sorted_theater_ids"},
                http |-> FALSE]
    /\ InitStore

\* The threads of the server's pool and the callers that fill the store;
\* the book requests name one seat, one that no room has included.
InitHttp ==
    /\ setup = [threads |-> 1..MaxThreads, calls |-> MaxCalls,
                names |-> {"N1"}, batch |-> 1,
                theater_names |-> {"N1"}, theater_batch |-> 1,
                movie_ids |-> {1}, theater_ids |-> {1}, ntheaters |-> 1,
                seats |-> (0..(MaxSeat - 1)) \cup {SEATS_PER_ROOM},
                nseats |-> 1,
                readers |-> {"get_movies", "get_theaters_for_movie"},
                http |-> TRUE]
    /\ InitStore

\* Threads calling the store for ever: thread 1 is the one that asks for
\* clear and the last thread the one that asks for a listing.
InitFair ==
    /\ setup = [threads |-> 1..MaxThreads, calls |-> 0,
                names |-> {"N1"}, batch |-> 1,
                theater_names |-> {"N1"}, theater_batch |-> 1,
                movie_ids |-> {1}, theater_ids |-> {1}, ntheaters |-> 1,
                seats |-> {0}, nseats |-> 1,
                readers |-> {"get_movies"}, http |-> FALSE]
    /\ InitStore

\* One thread calling the store: two movies and two theaters, named one at
\* a time, and the rooms of the first movie.
InitAssign ==
    /\ setup = [threads |-> {1}, calls |-> 0,
                names |-> {"N1", "N2"}, batch |-> 1,
                theater_names |-> {"T1", "T2"}, theater_batch |-> 1,
                movie_ids |-> {1}, theater_ids |-> {1, 2}, ntheaters |-> 2,
                seats |-> {0}, nseats |-> 1,
                readers |-> {"get_theaters_for_movie"},
                http |-> FALSE]
    /\ InitStore

\* Two threads of the server's pool and the callers that fill the store;
\* the book requests name up to two seats of a room.
InitSeats ==
    /\ setup = [threads |-> {1, 2}, calls |-> MaxCalls + 1,
                names |-> {"N1"}, batch |-> 1,
                theater_names |-> {"N1"}, theater_batch |-> 1,
                movie_ids |-> {1}, theater_ids |-> {1}, ntheaters |-> 1,
                seats |-> {0, 1}, nseats |-> 2,
                readers |-> {"get_movies"}, http |-> TRUE]
    /\ InitStore

\* Two threads calling the store for ever: each can hold the mutex of a
\* room while the other asks for it.
InitSched ==
    /\ setup = [threads |-> {1, 2}, calls |-> 0,
                names |-> {"N1"}, batch |-> 1,
                theater_names |-> {"N1"}, theater_batch |-> 1,
                movie_ids |-> {1}, theater_ids |-> {1}, ntheaters |-> 1,
                seats |-> {0}, nseats |-> 1,
                readers |-> {"get_movies"}, http |-> FALSE]
    /\ InitStore

\* One thread calling the store: the book requests with all the seats.
InitRoom ==
    /\ setup = [threads |-> {1}, calls |-> 0,
                names |-> {"N1"}, batch |-> 1,
                theater_names |-> {"N1"}, theater_batch |-> 1,
                movie_ids |-> {1}, theater_ids |-> {1}, ntheaters |-> 1,
                seats |-> (0..(MaxSeat + 1)) \cup NoSeats, nseats |-> MaxSeat + 1,
                readers |-> {"get_movies"}, http |-> FALSE]
    /\ InitStore

\* A run of the concurrent store is cut after setup.calls calls (0: never).
Budget ==
    /\ setup.calls > 0 => ncalls < setup.calls
    /\ ncalls' = IF setup.calls > 0 THEN ncalls + 1 ELSE ncalls

Goto(t, label) == pc' = [pc EXCEPT ![t] = label]
Set(t, c) == call' = [call EXCEPT ![t] = c]
\* The same while the cache ref gets the std::shared_ptr of a new string.
SetShared(t, c, ref, content) ==
    call' = [u \in Threads |->
                IF u = t THEN c ELSE std_make_shared(call[u], ref, content)]

----------------------------------------------------------------------------
(* commandexecution.cpp: the commands, given the call c of the store they  *)
(* made (c.result is what it returned or the exception it threw, c.value   *)
(* the listing it returned); request.cpp: Request::execute.                *)

CommandResult(body, status) == [body |-> body, status |-> status]

list_movies(c) == CommandResult(c.value, "OK")

\* The command that answers OK though the store threw.
ListTheatersAlwaysOk(c) == CommandResult(c.value, "OK")

list_theaters(c) ==
    IF c.result = "OK" THEN CommandResult(c.value, "OK")
    ELSE CommandResult("Invalid movieid" \o CBS_EOL, "INVALID_REQ")

list_seats(c) ==
    IF c.result = "OK" THEN CommandResult(c.value, "OK")
    ELSE CommandResult("Invalid combination of movieid and theaterid" \o CBS_EOL,
                       "INVALID_REQ")

\* The command that answers every booking with OK.
BookAlwaysOk(c) == CommandResult("Booking OK" \o CBS_EOL, "OK")

book(c) ==
    IF c.result = "ACCEPTED"
    THEN CommandResult("Booking OK" \o CBS_EOL, "OK")
    ELSE IF c.result = "NOT_AVAILABLE"
    THEN CommandResult("Seats not available" \o CBS_EOL, "REJECTED")
    ELSE CommandResult("Invalid movieid, theaterid or seatnumbers" \o CBS_EOL,
                       "INVALID_REQ")

RequestInvalid_execute == CommandResult("Invalid request" \o CBS_EOL, "INVALID_REQ")

\* The methods of the store the commands call.
CommandOps == {"get_movies", "get_theaters_for_movie", "get_available_seats",
               "book_seats"}

Request_execute(c) ==
    CASE c.op = "get_movies" -> list_movies(c)
      [] c.op = "get_theaters_for_movie" -> list_theaters(c)
      [] c.op = "get_available_seats" -> list_seats(c)
      [] c.op = "book_seats" -> book(c)
      [] OTHER -> RequestInvalid_execute

(* network.cpp.                                                            *)

\* The translation that answers 200 whatever the command returned.
TranslateAlwaysOk(command_status) == 200

translate_command_status(command_status) ==
    CASE command_status = "OK" -> 200
      [] command_status = "REJECTED" -> 403
      [] command_status = "INVALID_REQ" -> 400
      [] OTHER -> 400

\* The reply that leaves the body of the response empty.
ReplyDropsBody(status, body) ==
    [status |-> status, content_type |-> "text/plain", body |-> ""]

\* The response reply() writes.
reply(status, body) ==
    [status |-> status, content_type |-> "text/plain", body |-> body]

----------------------------------------------------------------------------
(* requestparser.cpp: the book requests.  A request is modelled by the     *)
(* seat numbers that follow the movie and the theater in its target, in    *)
(* the order the client wrote them.                                        *)

RequestInvalid == [kind |-> "RequestInvalid", seat_numbers |-> {}]
RequestBook(seat_numbers) == [kind |-> "RequestBook", seat_numbers |-> seat_numbers]

\* REGEX_BOOK, its last group (\d+(_\d+){0,19}): one seat number and at
\* most REGEX_BOOK_REPEAT more.
REGEX_BOOK_REPEAT == 19
REGEX_BOOK_match(seat_strs) ==
    Len(seat_strs) >= 1 /\ Len(seat_strs) <= 1 + REGEX_BOOK_REPEAT

\* The parser that makes a set of the seat numbers whatever they are.
ParseBookKeepsDuplicates(seat_strs, seat_numbers) ==
    RequestBook(seat_numbers \cup Range(seat_strs))

\* parse_request_book: the loop over the seat numbers still to read, with
\* the set of those inserted.
RECURSIVE parse_request_book(_, _)
parse_request_book(seat_strs, seat_numbers) ==
    IF seat_strs = <<>> THEN RequestBook(seat_numbers)
    ELSE IF Head(seat_strs) \in seat_numbers THEN RequestInvalid
    ELSE parse_request_book(Tail(seat_strs), seat_numbers \cup {Head(seat_strs)})

\* parse_request, for a target that begins with /api/book_<movie>_<theater>_
parse_request(seat_strs) ==
    IF REGEX_BOOK_match(seat_strs) THEN parse_request_book(seat_strs, {})
    ELSE RequestInvalid

\* A request that names one seat more than REGEX_BOOK allows, none twice.
LongRequest == [i \in 1..(REGEX_BOOK_REPEAT + 2) |-> i - 1]

\* The book requests the clients send: those of at most setup.nseats seat
\* numbers, the same number twice or more included, and the long one.
BookInputs ==
    UNION {[1..k -> setup.seats] : k \in 0..setup.nseats} \cup {LongRequest}

\* What BookingData::book_seats is called with: by the server, the set of a
\* RequestBook in an order of iteration; by the other callers, any set.
BookCalls ==
    IF setup.http
    THEN UNION {{[request |-> input, seats |-> it] :
                    it \in Orders(parse_request(input).seat_numbers)} :
                input \in {i \in BookInputs : parse_request(i).kind = "RequestBook"}}
    ELSE {[request |-> <<>>, seats |-> s] :
                s \in SeqsNoRep(setup.seats, setup.nseats)}

----------------------------------------------------------------------------
(* BookingData::book_seats.                                                *)

\* std::shared_lock lock(mutex); rooms.at(movie_id).at(theater_id)
BookBegin(t) ==
    /\ pc[t] = "idle"
    /\ Budget
    /\ BookingData_book_seats_lock_ready
    /\ mutex' = BookingData_shared_lock(t)
    /\ \E m \in setup.movie_ids, th \in setup.theater_ids, b \in BookCalls :
        IF HasRoom(rooms, m, th)
        THEN /\ Set(t, [NoCall EXCEPT !.op = "book_seats", !.movie_id = m,
                            !.theater_id = th, !.seats = b.seats,
                            !.request = b.request,
                            !.start = RoomState(rooms[m][th])])
             /\ Goto(t, "book_lock")
        ELSE \* the seats are not looked at
             /\ Set(t, [NoCall EXCEPT !.op = "book_seats", !.movie_id = m,
                            !.theater_id = th, !.request = b.request,
                            !.result = "out_of_range"])
             /\ Goto(t, "ret")
    /\ UNCHANGED <<movie_list, theater_list, rooms, theaters_per_movie_cache,
                   serial, accepted, issued, setup>>

\* CinemaRoom::book_seats: std::unique_lock lock(mutex)
BookLockRoom(t) ==
    /\ pc[t] = "book_lock"
    /\ LET m == call[t].movie_id
           th == call[t].theater_id
       IN /\ HasRoom(rooms, m, th)
          /\ CinemaRoom_book_seats_lock_ready(rooms[m][th])
          /\ rooms' = [rooms EXCEPT ![m][th].mutex = LockUnique(@, t)]
          /\ Set(t, [call[t] EXCEPT !.pre = RoomState(rooms[m][th])])
    /\ Goto(t, "book_check")
    /\ UNCHANGED <<movie_list, theater_list, theaters_per_movie_cache, mutex,
                   serial, ncalls, accepted, issued, setup>>

\* CinemaRoom::book_seats: the first loop.  The serial run takes the call
\* here.
BookCheck(t) ==
    /\ pc[t] = "book_check"
    /\ LET m == call[t].movie_id
           th == call[t].theater_id
           found == CinemaRoom_check(rooms[m][th].seat_available, call[t].seats)
           k == <<m, th>>
       IN /\ HasRoom(rooms, m, th)
          /\ serial' = [serial EXCEPT
                            ![k] = CinemaRoom_book_seats(@, call[t].seats)]
          /\ IF found = "OK"
             THEN /\ Set(t, [call[t] EXCEPT !.serial_result =
                            CinemaRoom_book_result(serial[k], call[t].seats)])
                  /\ Goto(t, "book_mark")
             ELSE /\ Set(t, [call[t] EXCEPT !.result = found, !.serial_result =
                            CinemaRoom_book_result(serial[k], call[t].seats)])
                  /\ Goto(t, "ret")
    /\ UNCHANGED <<movie_list, theater_list, rooms, theaters_per_movie_cache,
                   mutex, ncalls, accepted, issued, setup>>

\* CinemaRoom::book_seats: the second loop.  The seats are taken from here
\* on.
BookMark(t) ==
    /\ pc[t] = "book_mark"
    /\ LET m == call[t].movie_id
           th == call[t].theater_id
       IN /\ HasRoom(rooms, m, th)
          /\ rooms' = BookingData_book_seats_mark(rooms, m, th, call[t].seats)
          /\ call' = [u \in Threads |->
                IF u = t THEN call[t]
                ELSE IF /\ call[u].op = "book_seats"
                        /\ InStore(u)
                        /\ call[u].movie_id = m /\ call[u].theater_id = th
                     THEN [call[u] EXCEPT !.alone = FALSE]
                     ELSE call[u]]
          /\ accepted' = [accepted EXCEPT ![<<m, th>>] =
                [i \in DOMAIN @ |->
                    IF i \in Range(call[t].seats) THEN @[i] + 1 ELSE @[i]]]
    /\ Goto(t, "book_cache")
    /\ UNCHANGED <<movie_list, theater_list, theaters_per_movie_cache, mutex,
                   serial, ncalls, issued, setup>>

\* CinemaRoom::book_seats: rebuild_cache(); return ACCEPTED.
BookCache(t) ==
    /\ pc[t] = "book_cache"
    /\ HasRoom(rooms, call[t].movie_id, call[t].theater_id)
    /\ rooms' = BookingData_book_seats_cache(rooms, call[t].movie_id,
                                              call[t].theater_id)
    /\ SetShared(t, [call[t] EXCEPT !.result = "ACCEPTED"],
                 <<"seat_cache", call[t].movie_id, call[t].theater_id>>,
                 CinemaRoom_rebuild_cache(
                    rooms[call[t].movie_id][call[t].theater_id]).seat_cache)
    /\ Goto(t, "ret")
    /\ UNCHANGED <<movie_list, theater_list, theaters_per_movie_cache, mutex,
                   serial, ncalls, accepted, issued, setup>>

----------------------------------------------------------------------------
(* BookingData::get_available_seats and CinemaRoom::get_seats.             *)

SeatsBegin(t) ==
    /\ pc[t] = "idle"
    /\ Budget
    /\ BookingData_shared_lock_ready
    /\ mutex' = BookingData_shared_lock(t)
    /\ \E m \in setup.movie_ids, th \in setup.theater_ids :
        IF HasRoom(rooms, m, th)
        THEN /\ Set(t, [NoCall EXCEPT !.op = "get_available_seats",
                            !.movie_id = m, !.theater_id = th])
             /\ Goto(t, "seats_lock")
        ELSE /\ Set(t, [NoCall EXCEPT !.op = "get_available_seats",
                            !.movie_id = m, !.theater_id = th,
                            !.result = "out_of_range"])
             /\ Goto(t, "ret")
    /\ UNCHANGED <<movie_list, theater_list, rooms, theaters_per_movie_cache,
                   serial, accepted, issued, setup>>

\* CinemaRoom::get_seats: std::shared_lock lock(mutex); return seat_cache
SeatsLockRoom(t) ==
    /\ pc[t] = "seats_lock"
    /\ LET m == call[t].movie_id
           th == call[t].theater_id
       IN /\ HasRoom(rooms, m, th)
          /\ CinemaRoom_get_seats_lock_ready(rooms[m][th])
          /\ rooms' = [rooms EXCEPT ![m][th].mutex = LockShared(@, t)]
          /\ Set(t, [call[t] EXCEPT !.result = "OK",
                                    !.value = rooms[m][th].seat_cache,
                                    !.ref = <<"seat_cache", m, th>>])
    /\ Goto(t, "ret")
    /\ UNCHANGED <<movie_list, theater_list, theaters_per_movie_cache, mutex,
                   serial, ncalls, accepted, issued, setup>>

----------------------------------------------------------------------------
(* BookingData::get_movies, get_sorted_movie_ids, get_theaters_for_movie   *)
(* and get_sorted_theater_ids.                                             *)

ReadBegin(t) ==
    /\ pc[t] = "idle"
    /\ Budget
    /\ BookingData_shared_lock_ready
    /\ mutex' = BookingData_shared_lock(t)
    /\ \E op \in setup.readers, m \in setup.movie_ids :
        /\ (op # "get_theaters_for_movie" => m = 1)
        /\ Set(t, [NoCall EXCEPT !.op = op,
                    !.movie_id = IF op = "get_theaters_for_movie" THEN m ELSE 0])
    /\ Goto(t, "read")
    /\ UNCHANGED <<movie_list, theater_list, rooms, theaters_per_movie_cache,
                   serial, accepted, issued, setup>>

Read(t) ==
    /\ pc[t] = "read"
    /\ Set(t, CASE call[t].op = "get_movies" ->
                    [call[t] EXCEPT !.result = "OK",
                                    !.value = movie_list.cached_list,
                                    !.ref = <<"movie_list">>]
                [] call[t].op = "get_sorted_movie_ids" ->
                    [call[t] EXCEPT !.result = "OK",
                                    !.keys = StringIdMap_get_sorted_keys(movie_list)]
                [] call[t].op = "get_sorted_theater_ids" ->
                    [call[t] EXCEPT !.result = "OK",
                                    !.keys = StringIdMap_get_sorted_keys(theater_list)]
                [] OTHER ->
                    IF call[t].movie_id \in DOMAIN theaters_per_movie_cache
                    THEN [call[t] EXCEPT !.result = "OK",
                            !.value = theaters_per_movie_cache[call[t].movie_id],
                            !.ref = <<"theaters_per_movie_cache", call[t].movie_id>>]
                    ELSE [call[t] EXCEPT !.result = "out_of_range"])
    /\ Goto(t, "ret")
    /\ UNCHANGED <<movie_list, theater_list, rooms, theaters_per_movie_cache,
                   mutex, serial, ncalls, accepted, issued, setup>>

----------------------------------------------------------------------------
(* BookingData::add_movies.                                                *)

AddMoviesBegin(t) ==
    /\ pc[t] = "idle"
    /\ Budget
    /\ BookingData_unique_lock_ready
    /\ mutex' = LockUnique(mutex, t)
    /\ \E names \in SeqsNoRep(setup.names, setup.batch) :
        /\ \/ Range(names) \cap movie_list.strings # {}
           \/ movie_list.next_id + Len(names) - 1 <= MaxId
        /\ Set(t, [NoCall EXCEPT !.op = "add_movies", !.names = names,
                                 !.pre_table = movie_list, !.pre_store = Store])
    /\ Goto(t, "am_add")
    /\ UNCHANGED <<movie_list, theater_list, rooms, theaters_per_movie_cache,
                   serial, accepted, issued, setup>>

\* auto inserted_ids = movie_list.add(std::move(movies));
AddMoviesAdd(t) ==
    /\ pc[t] = "am_add"
    /\ IF StringIdMap_add_throws(movie_list, call[t].names)
       THEN /\ Set(t, [call[t] EXCEPT !.result = "invalid_argument"])
            /\ Goto(t, "ret")
            /\ UNCHANGED <<movie_list, issued>>
       ELSE /\ \E it \in Orders(DOMAIN StringIdMap_insert(movie_list, call[t].names).id_strings) :
                    /\ movie_list' = StringIdMap_add(movie_list, call[t].names, it)
                    /\ SetShared(t, [call[t] EXCEPT !.ids =
                            StringIdMap_inserted_ids(movie_list, call[t].names)],
                            <<"movie_list">>,
                            StringIdMap_add(movie_list, call[t].names, it).cached_list)
            /\ issued' = [issued EXCEPT !.movie_list =
                            @ \o StringIdMap_inserted_ids(movie_list, call[t].names)]
            /\ Goto(t, "am_rooms")
    /\ UNCHANGED <<theater_list, rooms, theaters_per_movie_cache, mutex,
                   serial, ncalls, accepted, setup>>

\* for (auto movie_id: inserted_ids) { rooms[movie_id] = {}; rebuild_cache(movie_id); }
AddMoviesRooms(t) ==
    /\ pc[t] = "am_rooms"
    /\ rooms' = BookingData_add_movies_rooms(rooms, call[t].ids)
    /\ theaters_per_movie_cache' =
            BookingData_add_movies_cache(theaters_per_movie_cache, theater_list,
                                         call[t].ids)
    /\ Set(t, [call[t] EXCEPT !.result = "OK"])
    /\ Goto(t, "ret")
    /\ UNCHANGED <<movie_list, theater_list, mutex, serial, ncalls, accepted, issued, setup>>

----------------------------------------------------------------------------
(* BookingData::add_theaters.                                              *)

AddTheatersBegin(t) ==
    /\ pc[t] = "idle"
    /\ Budget
    /\ BookingData_unique_lock_ready
    /\ mutex' = LockUnique(mutex, t)
    /\ \E names \in SeqsNoRep(setup.theater_names, setup.theater_batch) :
        /\ \/ Range(names) \cap theater_list.strings # {}
           \/ theater_list.next_id + Len(names) - 1 <= MaxId
        /\ Set(t, [NoCall EXCEPT !.op = "add_theaters", !.names = names,
                                 !.pre_table = theater_list, !.pre_store = Store])
    /\ Goto(t, "at_add")
    /\ UNCHANGED <<movie_list, theater_list, rooms, theaters_per_movie_cache,
                   serial, accepted, issued, setup>>

\* theater_list.add(std::move(theaters));
AddTheatersAdd(t) ==
    /\ pc[t] = "at_add"
    /\ IF StringIdMap_add_throws(theater_list, call[t].names)
       THEN /\ Set(t, [call[t] EXCEPT !.result = "invalid_argument"])
            /\ UNCHANGED <<theater_list, issued>>
       ELSE /\ \E it \in Orders(DOMAIN StringIdMap_insert(theater_list, call[t].names).id_strings) :
                    /\ theater_list' = StringIdMap_add(theater_list, call[t].names, it)
                    /\ SetShared(t, [call[t] EXCEPT !.result = "OK", !.ids =
                            StringIdMap_inserted_ids(theater_list, call[t].names)],
                            <<"theater_list">>,
                            StringIdMap_add(theater_list, call[t].names, it).cached_list)
            /\ issued' = [issued EXCEPT !.theater_list =
                            @ \o StringIdMap_inserted_ids(theater_list, call[t].names)]
    /\ Goto(t, "ret")
    /\ UNCHANGED <<movie_list, rooms, theaters_per_movie_cache, mutex,
                   serial, ncalls, accepted, setup>>

----------------------------------------------------------------------------
(* BookingData::add_theaters_to_movie.                                     *)

AssignBegin(t) ==
    /\ pc[t] = "idle"
    /\ Budget
    /\ BookingData_unique_lock_ready
    /\ mutex' = LockUnique(mutex, t)
    /\ \E m \in setup.movie_ids, ths \in SUBSET setup.theater_ids :
        /\ Cardinality(ths) <= setup.ntheaters
        /\ Set(t, [NoCall EXCEPT !.op = "add_theaters_to_movie",
                                 !.movie_id = m, !.theaters = ths,
                                 !.pre_store = Store])
    /\ Goto(t, "atm_check")
    /\ UNCHANGED <<movie_list, theater_list, rooms, theaters_per_movie_cache,
                   serial, accepted, issued, setup>>

\* rooms.at(movie_id) and the loop that verifies that no theater is already
\* displaying the movie.
AssignCheck(t) ==
    /\ pc[t] = "atm_check"
    /\ IF call[t].movie_id \notin DOMAIN rooms
       THEN /\ Set(t, [call[t] EXCEPT !.result = "out_of_range"])
            /\ Goto(t, "ret")
       ELSE IF BookingData_already_displaying(rooms, call[t].movie_id, call[t].theaters)
       THEN /\ Set(t, [call[t] EXCEPT !.result = "runtime_error"])
            /\ Goto(t, "ret")
       ELSE /\ UNCHANGED call
            /\ Goto(t, "atm_create")
    /\ UNCHANGED <<movie_list, theater_list, rooms, theaters_per_movie_cache,
                   mutex, serial, ncalls, accepted, issued, setup>>

\* The loop that creates the rooms.
AssignCreate(t) ==
    /\ pc[t] = "atm_create"
    /\ rooms' = BookingData_create_rooms(rooms, call[t].movie_id, call[t].theaters)
    /\ serial' = [k \in DOMAIN serial \cup {<<call[t].movie_id, th>> : th \in call[t].theaters} |->
                    IF k \in DOMAIN serial THEN serial[k]
                    ELSE CinemaRoom_new.seat_available]
    /\ accepted' = [k \in DOMAIN accepted \cup {<<call[t].movie_id, th>> : th \in call[t].theaters} |->
                    IF k \in DOMAIN accepted THEN accepted[k]
                    ELSE [i \in 0..(SEATS_PER_ROOM - 1) |-> 0]]
    /\ Goto(t, "atm_cache")
    /\ UNCHANGED <<movie_list, theater_list, theaters_per_movie_cache, mutex,
                   call, ncalls, issued, setup>>

\* rebuild_cache(movie_id);
AssignCache(t) ==
    /\ pc[t] = "atm_cache"
    /\ IF BookingData_rebuild_cache_throws(movie_list, theater_list, rooms,
                                           call[t].movie_id)
       THEN /\ Set(t, [call[t] EXCEPT !.result = "out_of_range"])
            /\ UNCHANGED theaters_per_movie_cache
       ELSE /\ \E it \in Orders(DOMAIN rooms[call[t].movie_id]) :
                /\ theaters_per_movie_cache' =
                        BookingData_rebuild_cache(theaters_per_movie_cache,
                                                  theater_list, call[t].movie_id, it)
                /\ SetShared(t, [call[t] EXCEPT !.result = "OK"],
                        <<"theaters_per_movie_cache", call[t].movie_id>>,
                        BookingData_rebuild_cache(theaters_per_movie_cache,
                            theater_list, call[t].movie_id, it)[call[t].movie_id])
    /\ Goto(t, "ret")
    /\ UNCHANGED <<movie_list, theater_list, rooms, mutex, serial, ncalls, accepted, issued, setup>>

----------------------------------------------------------------------------
(* BookingData::clear.                                                     *)

\* The clear that leaves the theater listings where they are.
ClearKeepsListings(cache) == cache

\* theaters_per_movie_cache.clear(); rebuild_cache() over the rooms, which
\* are none.
BookingData_clear_cache(cache) == EmptyMap

ClearBegin(t) ==
    /\ pc[t] = "idle"
    /\ Budget
    /\ BookingData_unique_lock_ready
    /\ mutex' = LockUnique(mutex, t)
    /\ Set(t, [NoCall EXCEPT !.op = "clear", !.pre_store = Store])
    /\ Goto(t, "clear_lists")
    /\ UNCHANGED <<movie_list, theater_list, rooms, theaters_per_movie_cache,
                   serial, accepted, issued, setup>>

\* movie_list.clear(); theater_list.clear();
ClearLists(t) ==
    /\ pc[t] = "clear_lists"
    /\ movie_list' = StringIdMap_clear(movie_list)
    /\ theater_list' = StringIdMap_clear(theater_list)
    /\ issued' = [issued EXCEPT !.movie_list_cleared = Len(issued.movie_list),
                                !.theater_list_cleared = Len(issued.theater_list)]
    /\ call' = [u \in Threads |->
                std_make_shared(
                    std_make_shared(call[u], <<"movie_list">>,
                                    StringIdMap_clear(movie_list).cached_list),
                    <<"theater_list">>,
                    StringIdMap_clear(theater_list).cached_list)]
    /\ Goto(t, "clear_rooms")
    /\ UNCHANGED <<rooms, theaters_per_movie_cache, mutex, serial, ncalls,
                   accepted, setup>>

\* rooms.clear(); theaters_per_movie_cache.clear(); rebuild_cache();
\* rebuild_cache() finds no movie in rooms to rebuild.
ClearRooms(t) ==
    /\ pc[t] = "clear_rooms"
    /\ rooms' = EmptyMap
    /\ theaters_per_movie_cache' = BookingData_clear_cache(theaters_per_movie_cache)
    /\ serial' = EmptyMap
    /\ accepted' = EmptyMap
    /\ Set(t, [call[t] EXCEPT !.result = "OK"])
    /\ Goto(t, "ret")
    /\ UNCHANGED <<movie_list, theater_list, mutex, ncalls, issued, setup>>

----------------------------------------------------------------------------
(* The method returns or the exception leaves it: the locks it holds are   *)
(* released.                                                               *)

\* The caller is the test or the start of the server, or (setup.http) the
\* command of commandexecution.cpp that Request::execute calls in
\* handle_command: it returns its CommandResult.
Return(t) ==
    /\ pc[t] = "ret"
    /\ mutex' = Unlock(mutex, t)
    /\ rooms' = ReleaseRooms(rooms, t)
    /\ IF setup.http /\ call[t].op \in CommandOps
       THEN /\ Goto(t, "reply")
            /\ Set(t, [call[t] EXCEPT
                    !.body = Request_execute(call[t]).body,
                    !.status = Request_execute(call[t]).status,
                    !.post = IF HasRoom(rooms, call[t].movie_id, call[t].theater_id)
                             THEN RoomState(rooms[call[t].movie_id][call[t].theater_id])
                             ELSE NoRoom])
       ELSE /\ Goto(t, "idle")
            /\ Set(t, NoCall)
    /\ UNCHANGED <<movie_list, theater_list, theaters_per_movie_cache,
                   serial, ncalls, accepted, issued, setup>>

----------------------------------------------------------------------------
(* network.cpp: handle_command, for a request that was read and parsed.    *)

\* parse_request gave a RequestInvalid: execute() does not call the store.
InvalidRequest(t) ==
    /\ pc[t] = "idle"
    /\ Budget
    /\ \E input \in BookInputs :
        /\ parse_request(input).kind = "RequestInvalid"
        /\ Set(t, [NoCall EXCEPT !.op = "invalid",
                                 !.request = input,
                                 !.body = RequestInvalid_execute.body,
                                 !.status = RequestInvalid_execute.status])
    /\ Goto(t, "reply")
    /\ UNCHANGED <<movie_list, theater_list, rooms, theaters_per_movie_cache,
                   mutex, serial, accepted, issued, setup>>

\* auto status = translate_command_status(command_status);
\* reply(req, status, body, stream, http_handler);
Reply(t) ==
    /\ pc[t] = "reply"
    /\ Set(t, [call[t] EXCEPT !.reply =
                Append(@, reply(translate_command_status(call[t].status),
                                call[t].body))])
    /\ Goto(t, "replied")
    /\ UNCHANGED <<movie_list, theater_list, rooms, theaters_per_movie_cache,
                   mutex, serial, ncalls, accepted, issued, setup>>

\* handle_command returns: the stream and the body are let go.
Close(t) ==
    /\ pc[t] = "replied"
    /\ Set(t, NoCall)
    /\ Goto(t, "idle")
    /\ UNCHANGED <<movie_list, theater_list, rooms, theaters_per_movie_cache,
                   mutex, serial, ncalls, accepted, issued, setup>>

Next ==
    \/ \E t \in Threads : BookBegin(t)
    \/ \E t \in Threads : BookLockRoom(t)
    \/ \E t \in Threads : BookCheck(t)
    \/ \E t \in Threads : BookMark(t)
    \/ \E t \in Threads : BookCache(t)
    \/ \E t \in Threads : SeatsBegin(t)
    \/ \E t \in Threads : SeatsLockRoom(t)
    \/ \E t \in Threads : ReadBegin(t)
    \/ \E t \in Threads : Read(t)
    \/ \E t \in Threads : AddMoviesBegin(t)
    \/ \E t \in Threads : AddMoviesAdd(t)
    \/ \E t \in Threads : AddMoviesRooms(t)
    \/ \E t \in Threads : AddTheatersBegin(t)
    \/ \E t \in Threads : AddTheatersAdd(t)
    \/ \E t \in Threads : AssignBegin(t)
    \/ \E t \in Threads : AssignCheck(t)
    \/ \E t \in Threads : AssignCreate(t)
    \/ \E t \in Threads : AssignCache(t)
    \/ \E t \in Threads : ClearBegin(t)
    \/ \E t \in Threads : ClearLists(t)
    \/ \E t \in Threads : ClearRooms(t)
    \/ \E t \in Threads : Return(t)

\* The server: the threads of the pool run handle_command.
NextHttp ==
    \/ Next
    \/ \E t \in Threads : InvalidRequest(t)
    \/ \E t \in Threads : Reply(t)
    \/ \E t \in Threads : Close(t)

\* The store called by MaxThreads threads.
Spec == Init /\ [][Next]_vars

\* The store behind the server.
SpecHttp == InitHttp /\ [][NextHttp]_vars

\* The store behind the server, for the seats of a room.
SpecSeats == InitSeats /\ [][NextHttp]_vars

\* The steps of a thread inside a method: it is not waiting to begin one.
Inside(t) ==
    \/ BookLockRoom(t) \/ BookCheck(t) \/ BookMark(t) \/ BookCache(t)
    \/ SeatsLockRoom(t) \/ Read(t)
    \/ AddMoviesAdd(t) \/ AddMoviesRooms(t) \/ AddTheatersAdd(t)
    \/ AssignCheck(t) \/ AssignCreate(t) \/ AssignCache(t)
    \/ ClearLists(t) \/ ClearRooms(t) \/ Return(t)

\* The thread that asks for the store's mutex as a writer, and the one that
\* asks for it as a reader.
Writer == 1
Reader == MaxThreads

\* The store called for ever under fair scheduling: a thread that can take
\* its next step does, a thread blocked in std::shared_mutex::lock or
\* lock_shared takes the mutex if it stays available (the mutex promises no
\* more), Writer keeps asking for clear and Reader for get_movies.
SpecFair ==
    /\ InitFair /\ [][Next]_vars
    /\ \A t \in 1..MaxThreads : WF_vars(Inside(t))
    /\ WF_vars(ClearBegin(Writer))
    /\ WF_vars(ReadBegin(Reader))

\* The store called for ever under fair scheduling alone: a thread that can
\* take its next step does; nothing is promised to a thread that waits for
\* a mutex.
SpecSched ==
    /\ InitSched /\ [][Next]_vars
    /\ \A t \in {1, 2} : WF_vars(Inside(t))

\* The store called by one thread, for the name tables.
SpecTable == InitTable /\ [][Next]_vars

\* The store called by one thread, for the seats of a room.
SpecRoom == InitRoom /\ [][Next]_vars

\* The store called by one thread, for the rooms of several movies and
\* theaters.
SpecAssign == InitAssign /\ [][Next]_vars

----------------------------------------------------------------------------
(* What the claims are stated with.                                        *)

BookingResults == {"ACCEPTED", "NOT_AVAILABLE", "INVALID"}

\* Thread t is at the return of a BookingData::book_seats that found its
\* room; it still holds the locks.
Booked(t) ==
    /\ pc[t] = "ret"
    /\ call[t].op = "book_seats"
    /\ call[t].result \in BookingResults

\* The room of the call of thread t.
TheRoom(t) == rooms[call[t].movie_id][call[t].theater_id]

SeatIds == 0..(SEATS_PER_ROOM - 1)

\* Thread t is inside CinemaRoom::book_seats, past its lock.
InRoom(t) == pc[t] \in {"book_check", "book_mark", "book_cache"} \/ Booked(t)

\* C1: no double booking.  For every room and every seat at most one call
\* of book_seats whose set holds the seat has returned ACCEPTED since the
\* room was created, and a seat is available exactly as long as no call has
\* returned ACCEPTED for it: once taken it stays taken while the room exists.
C1_NoDoubleBooking ==
    \A k \in RoomKeys(rooms) : \A i \in SeatIds :
        /\ accepted[k][i] <= 1
        /\ rooms[k[1]][k[2]].seat_available[i] <=> (accepted[k][i] = 0)

\* C1's case: a call that asks for a seat another call was ACCEPTED for
\* returns, and not with ACCEPTED.
C1_Witness ==
    \E t \in Threads :
        /\ Booked(t)
        /\ call[t].result = "NOT_AVAILABLE"
        /\ \E i \in Range(call[t].seats) :
                accepted[<<call[t].movie_id, call[t].theater_id>>][i] = 1

\* C2: monotone booking.  When book_seats returns ACCEPTED the available
\* seats of the room are the ones it had when the call locked it minus the
\* requested ones; when it returns anything else the seats and the cached
\* listing of the room are the ones it had.
C2_MonotoneBooking ==
    \A t \in Threads :
        Booked(t) =>
            IF call[t].result = "ACCEPTED"
            THEN Available(TheRoom(t).seat_available)
                    = Available(call[t].pre.seat_available) \ Range(call[t].seats)
            ELSE RoomState(TheRoom(t)) = call[t].pre

\* C2's case: two seats are booked in a room that had a seat taken already.
C2_Witness ==
    \E t \in Threads :
        /\ Booked(t)
        /\ call[t].result = "ACCEPTED"
        /\ Len(call[t].seats) = 2
        /\ Available(call[t].pre.seat_available) # SeatIds

\* C3: policy precedence.  A request that names an index >= SEATS_PER_ROOM
\* returns INVALID, whatever its other indices are and whether or not some
\* of them are taken.
C3_InvalidDominates ==
    \A t \in Threads :
        (Booked(t) /\ \E i \in Range(call[t].seats) : i >= SEATS_PER_ROOM)
            => call[t].result = "INVALID"

\* C4: booking outcome.  A request whose indices are all < SEATS_PER_ROOM
\* returns NOT_AVAILABLE exactly when one of them is taken and ACCEPTED
\* exactly when all of them are available.
C4_BookingOutcome ==
    \A t \in Threads :
        (Booked(t) /\ \A i \in Range(call[t].seats) : i < SEATS_PER_ROOM) =>
            /\ call[t].result = "NOT_AVAILABLE"
                <=> \E i \in Range(call[t].seats) : ~call[t].pre.seat_available[i]
            /\ call[t].result = "ACCEPTED"
                <=> \A i \in Range(call[t].seats) : call[t].pre.seat_available[i]

\* C4's case: the request names an available seat first and a taken one
\* second.
C4_Witness ==
    \E t \in Threads :
        /\ Booked(t)
        /\ call[t].result = "NOT_AVAILABLE"
        /\ Len(call[t].seats) = 2
        /\ call[t].pre.seat_available[call[t].seats[1]]
        /\ ~call[t].pre.seat_available[call[t].seats[2]]

\* C5: same-room serialisation.  The serial run executes the bookings of a
\* room one after the other, in the order in which they pass the first
\* loop.  Every booking returns what it returns in the serial run, and a
\* room no booking is in has the seats the serial run gives it.
C5_SameRoomSerialisation ==
    /\ \A t \in Threads :
        /\ Booked(t) => call[t].result = call[t].serial_result
        /\ pc[t] \in {"book_mark", "book_cache"}
                => call[t].serial_result = "ACCEPTED"
    /\ \A k \in RoomKeys(rooms) :
        rooms[k[1]][k[2]].mutex.writer = NoThread
            => rooms[k[1]][k[2]].seat_available = serial[k]

\* C5's case: a booking that began before another booking of the same room
\* marked its seats is ordered after it and sees its effect.
C5_Witness ==
    \E t \in Threads :
        /\ Booked(t)
        /\ ~call[t].alone
        /\ call[t].result = "NOT_AVAILABLE"
        /\ call[t].start.seat_available = CinemaRoom_new.seat_available

\* C6: parallel bookings.  A booking in whose room no other call books
\* while it runs returns, and leaves its room with, what book_seats run
\* alone on the room as the call found it returns and leaves, whatever the
\* bookings of the other rooms do in between.
C6_ParallelBookings ==
    \A t \in Threads :
        (Booked(t) /\ call[t].alone) =>
            /\ call[t].result =
                CinemaRoom_book_result(call[t].start.seat_available, call[t].seats)
            /\ TheRoom(t).seat_available =
                CinemaRoom_book_seats(call[t].start.seat_available, call[t].seats)

\* C6's case: two bookings of two rooms are at their return together, both
\* ACCEPTED.
C6_Witness ==
    \E t, u \in Threads :
        /\ t # u
        /\ Booked(t) /\ Booked(u)
        /\ call[t].theater_id # call[u].theater_id
        /\ call[t].result = "ACCEPTED" /\ call[u].result = "ACCEPTED"
        /\ call[t].seats # <<>> /\ call[u].seats # <<>>

\* C7: bookings on different rooms do not block each other or readers.  A
\* thread can begin book_seats whenever no writer holds the store's mutex,
\* can lock its room whenever nobody holds that room's mutex, and can go
\* through the rest of book_seats without waiting, whoever else reads the
\* store or books in another room.
C7_BookingsDoNotBlock ==
    \A t \in Threads :
        /\ (pc[t] = "idle" /\ mutex.writer = NoThread /\ ncalls < setup.calls)
                => ENABLED BookBegin(t)
        /\ (pc[t] = "book_lock" /\ TheRoom(t).mutex = FreeMutex)
                => ENABLED BookLockRoom(t)
        /\ pc[t] = "book_check" => ENABLED BookCheck(t)
        /\ pc[t] = "book_mark" => ENABLED BookMark(t)
        /\ pc[t] = "book_cache" => ENABLED BookCache(t)
        /\ Booked(t) => ENABLED Return(t)

\* C7's case: two bookings are past the locks of two rooms at once.
C7_Witness ==
    \E t, u \in Threads :
        /\ t # u
        /\ pc[t] \in {"book_check", "book_mark", "book_cache"}
        /\ pc[u] \in {"book_check", "book_mark", "book_cache"}
        /\ call[t].theater_id # call[u].theater_id

\* The movies table, rooms and the theater listings have the same movies.
StoreKeysAgree ==
    /\ DOMAIN rooms = DOMAIN movie_list.id_strings
    /\ DOMAIN theaters_per_movie_cache = DOMAIN rooms

\* C8: structural mutations are exclusive.  While a thread is inside
\* add_movies, add_theaters, add_theaters_to_movie or clear no other thread
\* is inside the store; so a thread inside a list, sorted or book method
\* never finds a movie in the movies table without its rooms entry and its
\* theater listing, nor a rooms entry of a movie the table has lost.
C8_MutationsExclusive ==
    /\ \A t \in Threads :
        (InStore(t) /\ call[t].op \in WriterOps)
            => \A u \in Threads \ {t} : ~InStore(u)
    /\ (\E t \in Threads : InStore(t) /\ call[t].op \in ReaderOps)
            => StoreKeysAgree

\* C8's case: add_movies has put a movie in the table and not yet its rooms
\* entry.
C8_Witness ==
    \E t \in Threads :
        /\ pc[t] = "am_rooms"
        /\ DOMAIN movie_list.id_strings # DOMAIN rooms

\* C9: a booking is safe against structural change.  From the lookup of its
\* room to its return the room of a booking is in rooms, past the room's
\* lock it is the booking that holds the mutex of the room that is in
\* rooms, and the seats of an ACCEPTED booking are taken in that room when
\* the booking returns.
C9_BookingSafe ==
    \A t \in Threads :
        /\ (pc[t] = "book_lock" \/ InRoom(t)) =>
                HasRoom(rooms, call[t].movie_id, call[t].theater_id)
        /\ InRoom(t) => TheRoom(t).mutex.writer = t
        /\ (Booked(t) /\ call[t].result = "ACCEPTED") =>
                \A i \in Range(call[t].seats) : ~TheRoom(t).seat_available[i]

\* C9's case: a booking has looked its room up and marked its seats, and
\* the other thread is idle (a clear it wants to begin has to wait).
C9_Witness ==
    \E t \in Threads :
        /\ Booked(t)
        /\ call[t].result = "ACCEPTED"
        /\ call[t].seats # <<>>
        /\ \E u \in Threads \ {t} : pc[u] = "idle" /\ ~ENABLED ClearBegin(u)
        /\ ncalls < setup.calls

\* The table a call of add_movies or add_theaters adds to.
TableOf(op) == IF op = "add_movies" THEN movie_list ELSE theater_list

\* C10: atomic bulk add.  An add whose batch holds a name the table has
\* fails (std::invalid_argument) and leaves the table as it was: the same
\* id to name map, names, cached listing and next id.
C10_AtomicBulkAdd ==
    \A t \in Threads :
        (/\ pc[t] = "ret"
         /\ call[t].op \in {"add_movies", "add_theaters"}
         /\ Range(call[t].names) \cap call[t].pre_table.strings # {})
        => /\ call[t].result = "invalid_argument"
           /\ TableOf(call[t].op) = call[t].pre_table

\* C10's case: the batch holds a name the table has and a new one.
C10_Witness ==
    \E t \in Threads :
        /\ pc[t] = "ret"
        /\ call[t].op \in {"add_movies", "add_theaters"}
        /\ Range(call[t].names) \cap call[t].pre_table.strings # {}
        /\ Range(call[t].names) \ call[t].pre_table.strings # {}
        /\ call[t].pre_table.cached_list # ""

\* C11: add_movies fails atomically.  An add_movies whose batch holds a
\* title the store has fails (std::invalid_argument) and leaves the whole
\* store as it was: both tables with their listings (so get_movies returns
\* what it returned), rooms and theaters_per_movie_cache.
C11_AddMoviesFailsAtomically ==
    \A t \in Threads :
        (/\ pc[t] = "ret"
         /\ call[t].op = "add_movies"
         /\ Range(call[t].names) \cap call[t].pre_store.movie_list.strings # {})
        => /\ call[t].result = "invalid_argument"
           /\ Store = call[t].pre_store

\* C11's case: the batch holds a title the store has and a new one, and the
\* store has a movie with a room.
C11_Witness ==
    \E t \in Threads :
        /\ pc[t] = "ret"
        /\ call[t].op = "add_movies"
        /\ Range(call[t].names) \cap call[t].pre_store.movie_list.strings # {}
        /\ Range(call[t].names) \ call[t].pre_store.movie_list.strings # {}
        /\ RoomKeys(call[t].pre_store.rooms) # {}
        /\ call[t].result = "invalid_argument"

\* No thread is inside add_movies, add_theaters, add_theaters_to_movie or
\* clear: the store is as the last of them left it.
NoWriterInside == \A t \in Threads : InStore(t) => call[t].op \notin WriterOps

\* C12: strong exception safety of add_theaters_to_movie.  Whenever the call
\* fails (movie id unknown, a theater id unknown, a theater id already
\* assigned to the movie) the store is as it was before the call: rooms
\* with every room's seats, theaters_per_movie_cache and both tables.
C12_AssignFailsAtomically ==
    \A t \in Threads :
        (/\ pc[t] = "ret"
         /\ call[t].op = "add_theaters_to_movie"
         /\ call[t].result # "OK")
        => Store = call[t].pre_store

\* C13: referential integrity of rooms.  Every movie id that is a key of
\* rooms is an id of the movies table and every theater id that is a key of
\* rooms[m] is an id of the theaters table (looked at when no mutator is
\* half way through).
C13_RoomsReferentialIntegrity ==
    NoWriterInside =>
        \A m \in DOMAIN rooms :
            /\ StringIdMap_has_id(movie_list, m)
            /\ \A th \in DOMAIN rooms[m] : StringIdMap_has_id(theater_list, th)

\* One line of a listing.
ListingLine(id, name) == ToString(id) \o "," \o name \o CBS_EOL

\* The lines of the entries ids of the id to name map names, one after the
\* other in the order it.
RECURSIVE Listing(_, _)
Listing(names, it) ==
    IF Len(it) = 0 THEN ""
    ELSE Listing(names, SubSeq(it, 1, Len(it) - 1))
         \o ListingLine(it[Len(it)], names[it[Len(it)]])

\* The rooms name movies and theaters the tables have.
RoomsReferToTables ==
    \A m \in DOMAIN rooms :
        /\ StringIdMap_has_id(movie_list, m)
        /\ \A th \in DOMAIN rooms[m] : StringIdMap_has_id(theater_list, th)

\* C14: theater listing cache agreement.  After any operation of the store
\* has finished, theaters_per_movie_cache[m] exists for every m in rooms and
\* holds exactly one line <theater_id>,<theater_name> for every theater id
\* in rooms[m], in some order, and no other line (stated for the stores
\* whose rooms name theaters the table has: the others have no such line).
C14_TheaterListingAgreement ==
    (NoWriterInside /\ RoomsReferToTables) =>
        \A m \in DOMAIN rooms :
            /\ m \in DOMAIN theaters_per_movie_cache
            /\ \E it \in Orders(DOMAIN rooms[m]) :
                    theaters_per_movie_cache[m] = Listing(theater_list.id_strings, it)

\* The elements of a set of numbers, ascending.
RECURSIVE Ascending(_)
Ascending(S) ==
    IF S = {} THEN <<>>
    ELSE LET least == CHOOSE x \in S : \A y \in S : x <= y
         IN <<least>> \o Ascending(S \ {least})

\* The numbers of a sequence, separated by commas.
RECURSIVE CommaSeparated(_)
CommaSeparated(seq) ==
    IF seq = <<>> THEN ""
    ELSE IF Len(seq) = 1 THEN ToString(seq[1])
    ELSE ToString(Head(seq)) \o "," \o CommaSeparated(Tail(seq))

\* The listing of the seats of a room that are available: ascending, comma
\* separated, ended by CBS_EOL (CBS_EOL alone when there is none).
SeatListing(seat_available) ==
    CommaSeparated(Ascending(Available(seat_available))) \o CBS_EOL

\* C15: seat cache agreement.  Whenever nobody holds the write lock of a
\* room its cached listing is the listing of its seats, and what
\* get_available_seats returns is the listing of the seats the room has
\* while the call holds the room's read lock.
C15_SeatCacheAgreement ==
    /\ \A k \in RoomKeys(rooms) :
        rooms[k[1]][k[2]].mutex.writer = NoThread
            => rooms[k[1]][k[2]].seat_cache
                    = SeatListing(rooms[k[1]][k[2]].seat_available)
    /\ \A t \in Threads :
        (/\ pc[t] = "ret"
         /\ call[t].op = "get_available_seats"
         /\ call[t].result = "OK")
        => call[t].value = SeatListing(TheRoom(t).seat_available)

\* C15's case: get_available_seats returns the listing of a room in which a
\* booking has taken a seat.
C15_Witness ==
    \E t \in Threads :
        /\ pc[t] = "ret"
        /\ call[t].op = "get_available_seats"
        /\ call[t].result = "OK"
        /\ Available(TheRoom(t).seat_available) # SeatIds
        /\ call[t].value # CinemaRoom_new.seat_cache

\* The cached listing of a table holds one line <id>,<name> for each
\* entry of its id to name map, in some order, and nothing else.
TableListingAgrees(table) ==
    \E it \in Orders(DOMAIN table.id_strings) :
        table.cached_list = Listing(table.id_strings, it)

\* C16: name table cache agreement.  After every add, failed or not, and
\* every clear (in every state of the model: add and clear rebuild the
\* listing in the step that changes the map) the cached listing of each
\* table is made of exactly the lines of its current entries.
C16_TableCacheAgreement ==
    /\ TableListingAgrees(movie_list)
    /\ TableListingAgrees(theater_list)

\* C16's case: an add has returned from a table that now has two entries.
C16_Witness ==
    \E t \in Threads :
        /\ pc[t] = "ret"
        /\ call[t].op \in {"add_movies", "add_theaters"}
        /\ call[t].result = "OK"
        /\ Cardinality(DOMAIN TableOf(call[t].op).id_strings) = 2
        /\ call[t].pre_table.cached_list = ""

\* The two tables, by the name of the member.
Tables == [movie_list |-> movie_list, theater_list |-> theater_list]

NoRepeat(seq) == \A i, j \in DOMAIN seq : i # j => seq[i] # seq[j]

\* C17: uniqueness.  After any sequence of add_movies, add_theaters and
\* clear every id a table's add has returned is different from every id
\* that table returned before, 0 is never returned, the ids a table holds
\* are ids its add returned, and no two of them have the same name.
C17_Uniqueness ==
    \A tb \in DOMAIN Tables :
        /\ NoRepeat(issued[tb])
        /\ 0 \notin Range(issued[tb])
        /\ DOMAIN Tables[tb].id_strings \subseteq Range(issued[tb])
        /\ \A i, j \in DOMAIN Tables[tb].id_strings :
                i # j => Tables[tb].id_strings[i] # Tables[tb].id_strings[j]

\* C17's case: a second add has returned from a table, after a first add
\* and a clear.
C17_Witness ==
    \E t \in Threads :
        /\ pc[t] = "ret"
        /\ call[t].op \in {"add_movies", "add_theaters"}
        /\ call[t].result = "OK"
        /\ Len(call[t].ids) = 1
        /\ LET tb == IF call[t].op = "add_movies" THEN "movie_list"
                     ELSE "theater_list"
           IN /\ Len(issued[tb]) = 2
              /\ issued[tb \o "_cleared"] = 1

StrictlyIncreasing(seq) == \A i \in 1..(Len(seq) - 1) : seq[i] < seq[i + 1]

\* C18: monotone ids.  The ids a table's add returns are strictly
\* increasing in the order returned, across the calls and within the
\* vector of one call; the vector returned by an add to an empty table is
\* the table's sorted ids.
C18_MonotoneIds ==
    /\ \A tb \in DOMAIN Tables : StrictlyIncreasing(issued[tb])
    /\ \A t \in Threads :
        (/\ pc[t] = "ret"
         /\ call[t].op \in {"add_movies", "add_theaters"}
         /\ call[t].result = "OK")
        => /\ StrictlyIncreasing(call[t].ids)
           /\ DOMAIN call[t].pre_table.id_strings = {}
                => call[t].ids =
                    Ascending(StringIdMap_get_sorted_keys(TableOf(call[t].op)))

\* C18's case: an add of two names to an empty table.
C18_Witness ==
    \E t \in Threads :
        /\ pc[t] = "ret"
        /\ call[t].op \in {"add_movies", "add_theaters"}
        /\ call[t].result = "OK"
        /\ Len(call[t].ids) = 2
        /\ DOMAIN call[t].pre_table.id_strings = {}

\* C19: clear does not reset the id counter.  Every id a table's add
\* returns after a clear is greater than every id it returned before the
\* clear, and clear returns with the next_id it found.
C19_ClearKeepsCounter ==
    /\ \A tb \in DOMAIN Tables :
        \A i, j \in DOMAIN issued[tb] :
            (i <= issued[tb \o "_cleared"] /\ j > issued[tb \o "_cleared"])
                => issued[tb][j] > issued[tb][i]
    /\ \A t \in Threads :
        (pc[t] = "ret" /\ call[t].op = "clear") =>
            /\ movie_list.next_id = call[t].pre_store.movie_list.next_id
            /\ theater_list.next_id = call[t].pre_store.theater_list.next_id

\* C19's case: a table has returned an id before its last clear and one
\* after it.
C19_Witness ==
    \E tb \in DOMAIN Tables :
        /\ issued[tb \o "_cleared"] > 0
        /\ Len(issued[tb]) > issued[tb \o "_cleared"]
        /\ DOMAIN Tables[tb].id_strings # {}

\* A table without its entries: the id counter stays.
EmptiedTable(table) ==
    [next_id |-> table.next_id, id_strings |-> EmptyMap, strings |-> {},
     cached_list |-> ""]

\* A store without its entries.
EmptiedStore(st) ==
    [movie_list |-> EmptiedTable(st.movie_list),
     theater_list |-> EmptiedTable(st.theater_list),
     rooms |-> EmptyMap, theaters_per_movie_cache |-> EmptyMap]

\* C20: idempotent clear.  clear leaves the store without entries and with
\* the id counters it found, so a clear of a store a clear has left leaves
\* it in the same state: tables, id counters, rooms and caches.
C20_IdempotentClear ==
    \A t \in Threads :
        (pc[t] = "ret" /\ call[t].op = "clear") =>
            /\ Store = EmptiedStore(call[t].pre_store)
            /\ call[t].pre_store = EmptiedStore(call[t].pre_store)
                    => Store = call[t].pre_store

\* C20's case: clear returns from a store that a clear had emptied after
\* movies, theaters and rooms had been added.
C20_Witness ==
    \E t \in Threads :
        /\ pc[t] = "ret"
        /\ call[t].op = "clear"
        /\ call[t].pre_store = EmptiedStore(call[t].pre_store)
        /\ call[t].pre_store.movie_list.next_id > 1
        /\ call[t].pre_store.theater_list.next_id > 1
        /\ Store = call[t].pre_store

----------------------------------------------------------------------------
(* The listings after clear.                                               *)

ListOps == {"get_movies", "get_theaters_for_movie", "get_available_seats"}

\* Ids were issued, every one of them before the last clear: the store is
\* as clear left it.
Cleared ==
    /\ issued.movie_list # <<>> \/ issued.theater_list # <<>>
    /\ issued.movie_list_cleared = Len(issued.movie_list)
    /\ issued.theater_list_cleared = Len(issued.theater_list)

\* C21 as the specification states it: after clear every list operation
\* returns a listing, and the one of the movies is empty.
C21_ListsReturnEmptyAfterClear ==
    \A t \in Threads :
        (pc[t] = "ret" /\ call[t].op \in ListOps /\ Cleared)
            => /\ call[t].result = "OK"
               /\ call[t].op = "get_movies" => call[t].value = ""

\* C21, amended: after clear get_movies returns the empty string, and
\* get_theaters_for_movie(m) and get_available_seats(m, t) return no
\* listing: they throw std::out_of_range for every m and t, the ids that
\* existed before the clear included.
C21_ListsAfterClear ==
    \A t \in Threads :
        (pc[t] = "ret" /\ call[t].op \in ListOps /\ Cleared)
            => IF call[t].op = "get_movies"
               THEN call[t].result = "OK" /\ call[t].value = ""
               ELSE call[t].result = "out_of_range"

\* C21's case: the theaters of a movie that was added and cleared are asked
\* for.
C21_Witness ==
    \E t \in Threads :
        /\ pc[t] = "ret"
        /\ call[t].op = "get_theaters_for_movie"
        /\ Cleared
        /\ call[t].movie_id \in Range(issued.movie_list)

----------------------------------------------------------------------------
(* The rooms of the movies.                                                *)

\* C22 as the specification states it: every movie id add_movies has ever
\* issued has its sub-map of rooms in every later state.
C22_RoomsOfEveryMovieEverAdded ==
    NoWriterInside =>
        \A i \in DOMAIN issued.movie_list : issued.movie_list[i] \in DOMAIN rooms

\* C22, amended: every movie id the store has now (added by add_movies and
\* not cleared since) has its sub-map of rooms, empty or not, in every state
\* in which no writer is inside the store.
C22_RoomsOfEveryMovie ==
    NoWriterInside =>
        \A m \in DOMAIN movie_list.id_strings : m \in DOMAIN rooms

\* C22's case: a movie added after a clear, with no room yet.
C22_Witness ==
    /\ NoWriterInside
    /\ issued.movie_list_cleared >= 1
    /\ \E m \in DOMAIN movie_list.id_strings :
            m \in DOMAIN rooms /\ DOMAIN rooms[m] = {}

\* C23: room existence and persistence.  A call of add_theaters_to_movie
\* leaves new rooms behind exactly when it succeeds (then one for each
\* theater it names), no other call creates a room, and every call but
\* clear leaves the rooms that existed in place, with the seats they had.
C23_RoomExistenceAndPersistence ==
    \A t \in Threads :
        (pc[t] = "ret" /\ call[t].op \in WriterOps)
            => LET before == call[t].pre_store.rooms
                   created == RoomKeys(rooms) \ RoomKeys(before)
               IN /\ created # {} =>
                        /\ call[t].op = "add_theaters_to_movie"
                        /\ call[t].result = "OK"
                  /\ (call[t].op = "add_theaters_to_movie" /\ call[t].result = "OK")
                        => created = {<<call[t].movie_id, th>> : th \in call[t].theaters}
                  /\ call[t].op # "clear" =>
                        \A k \in RoomKeys(before) :
                            /\ HasRoom(rooms, k[1], k[2])
                            /\ rooms[k[1]][k[2]].seat_available
                                    = before[k[1]][k[2]].seat_available

----------------------------------------------------------------------------
(* The listings handed out.                                                *)

\* C24: snapshot stability.  A listing handed to a caller by get_movies,
\* get_theaters_for_movie or get_available_seats has, for as long as the
\* caller holds it, the content it had when it was returned, whatever
\* bookings, adds, assignments and clear do to the caches of the store; the
\* body of the command is that listing.
C24_SnapshotStability ==
    [][\A t \in Threads :
        (call[t].ref # <<>> /\ call'[t].ref = call[t].ref)
            => /\ call'[t].value = call[t].value
               /\ pc'[t] \in {"reply", "replied"} => call'[t].body = call[t].value]_vars

\* C24's case: a thread of the server holds the seat listing of a room
\* whose listing a later booking has replaced.
C24_Witness ==
    \E t \in Threads :
        /\ pc[t] \in {"reply", "replied"}
        /\ Len(call[t].ref) = 3
        /\ HasRoom(rooms, call[t].ref[2], call[t].ref[3])
        /\ rooms[call[t].ref[2]][call[t].ref[3]].seat_cache # call[t].value

----------------------------------------------------------------------------
(* What a reader sees of the writers that have returned.                   *)

\* The seats of the room k taken by calls of book_seats that have returned
\* ACCEPTED: the seats taken, but for the ones of the calls that have taken
\* theirs and are still to return.
ReturnedSeats(k) ==
    {i \in SeatIds : accepted[k][i] > 0}
        \ UNION {Range(call[u].seats) :
                    u \in {v \in Threads :
                            /\ call[v].op = "book_seats"
                            /\ <<call[v].movie_id, call[v].theater_id>> = k
                            /\ \/ pc[v] = "book_cache"
                               \/ pc[v] = "ret" /\ call[v].result = "ACCEPTED"}}

\* The seat listing value names none of the seats of taken: it is the
\* listing of all the seats but some that include them.
ListsNoneOf(value, taken) ==
    \E missing \in SUBSET (setup.seats \cap SeatIds) :
        /\ taken \subseteq missing
        /\ value = CommaSeparated(Ascending(SeatIds \ missing)) \o CBS_EOL

\* C25: read your writes.  The listing get_available_seats(m, t) returns
\* names no seat of a book_seats(m, t, S) that had returned ACCEPTED when
\* the call read it (so none of one that had returned before the call
\* began), and the listing get_movies returns has the line of every title
\* of the movie table, which are the ones of the add_movies that have
\* returned.
C25_ReadYourWrites ==
    \A t \in Threads :
        (pc[t] = "ret" /\ call[t].result = "OK")
            => /\ call[t].op = "get_available_seats" =>
                    ListsNoneOf(call[t].value,
                                ReturnedSeats(<<call[t].movie_id, call[t].theater_id>>))
               /\ call[t].op = "get_movies" =>
                    \E it \in Orders(DOMAIN movie_list.id_strings) :
                        call[t].value = Listing(movie_list.id_strings, it)

\* C25's case: get_available_seats returns in a room where a booking has
\* returned ACCEPTED.
C25_Witness ==
    \E t \in Threads :
        /\ pc[t] = "ret"
        /\ call[t].op = "get_available_seats"
        /\ call[t].result = "OK"
        /\ ReturnedSeats(<<call[t].movie_id, call[t].theater_id>>) # {}

----------------------------------------------------------------------------
(* Waiting for the store's mutex.                                          *)

\* C26 as the specification states it: no starvation.  Under fair
\* scheduling the writer that asks for the store's mutex gets it again and
\* again, whatever readers arrive, and so does the reader, whatever writers
\* arrive.
C26_NoStarvation ==
    /\ []<>(pc[Writer] # "idle")
    /\ []<>(pc[Reader] # "idle")

\* C26, amended: a thread that asks for the store's mutex is postponed only
\* while other threads keep arriving; if from some time on no other thread
\* is in a call, it gets the mutex.
C26_PostponedOnlyByArrivals ==
    /\ <>[](\A u \in Threads \ {Writer} : pc[u] = "idle")
            => []<>(pc[Writer] # "idle")
    /\ <>[](\A u \in Threads \ {Reader} : pc[u] = "idle")
            => []<>(pc[Reader] # "idle")

\* C26's case: the writer is waiting for the mutex that readers hold.
C26_Witness ==
    /\ pc[Writer] = "idle"
    /\ mutex.readers # {}
    /\ ~BookingData_unique_lock_ready

----------------------------------------------------------------------------
(* The commands and the replies of the server.                             *)

\* The thread has the CommandResult of the command it executed.
Executed(t) == pc[t] \in {"reply", "replied"}

\* C27: command status of book.  The command book returns OK exactly when
\* book_seats returned ACCEPTED, REJECTED exactly when it returned
\* NOT_AVAILABLE, and INVALID_REQ when it returned INVALID or threw because
\* the room does not exist; the body of OK is "Booking OK" and CR LF.
C27_BookCommandStatus ==
    \A t \in Threads :
        (Executed(t) /\ call[t].op = "book_seats")
            => /\ call[t].status = "OK" <=> call[t].result = "ACCEPTED"
               /\ call[t].status = "REJECTED" <=> call[t].result = "NOT_AVAILABLE"
               /\ call[t].result \in {"INVALID", "out_of_range"}
                        => call[t].status = "INVALID_REQ"
               /\ call[t].status \in {"OK", "REJECTED", "INVALID_REQ"}
               /\ call[t].status = "OK" => call[t].body = "Booking OK\r\n"

\* C27's case: the command book has returned REJECTED.
C27_Witness ==
    \E t \in Threads :
        /\ Executed(t)
        /\ call[t].op = "book_seats"
        /\ call[t].result = "NOT_AVAILABLE"

\* The thread has written the response of its request.
Replied(t) == pc[t] = "replied"

StoreContent ==
    [movie_list |-> movie_list, theater_list |-> theater_list,
     theaters_per_movie_cache |-> theaters_per_movie_cache,
     rooms |-> [m \in DOMAIN rooms |->
                    [th \in DOMAIN rooms[m] |-> RoomState(rooms[m][th])]]]

\* C29: unknown identifiers on reads.  When the command returns,
\* list_theaters of an id that is no movie of the store, list_seats and book
\* of a movie and theater that have no room have the status INVALID_REQ;
\* and no step of a call that throws std::out_of_range changes the movie
\* table, the theater table, the rooms or the listings.
C29_UnknownIdentifiers ==
    [][\A t \in Threads :
        /\ (pc[t] = "ret" /\ pc'[t] = "reply")
            => /\ (/\ call[t].op = "get_theaters_for_movie"
                   /\ ~StringIdMap_has_id(movie_list, call[t].movie_id))
                        => call'[t].status = "INVALID_REQ"
               /\ (/\ call[t].op \in {"get_available_seats", "book_seats"}
                   /\ ~HasRoom(rooms, call[t].movie_id, call[t].theater_id))
                        => call'[t].status = "INVALID_REQ"
        /\ (/\ pc'[t] # pc[t]
            /\ call'[t].op \in CommandOps
            /\ call'[t].result = "out_of_range")
                => StoreContent' = StoreContent]_vars

\* C29's case: list_theaters of a movie the store does not have has
\* returned.
C29_Witness ==
    \E t \in Threads :
        /\ Executed(t)
        /\ call[t].op = "get_theaters_for_movie"
        /\ ~StringIdMap_has_id(movie_list, call[t].movie_id)
        /\ call[t].status = "INVALID_REQ"

\* C30: HTTP status mapping.  A request that was read, parsed and executed
\* has, once handle_command has replied, exactly one response, with the
\* body of the command and the status 200 for OK, 403 for REJECTED and 400
\* for INVALID_REQ; before that it has none.
C30_HttpStatusMapping ==
    \A t \in Threads :
        /\ ~Replied(t) => call[t].reply = <<>>
        /\ Replied(t) =>
            /\ Len(call[t].reply) = 1
            /\ call[t].reply[1].body = call[t].body
            /\ call[t].status = "OK" => call[t].reply[1].status = 200
            /\ call[t].status = "REJECTED" => call[t].reply[1].status = 403
            /\ call[t].status = "INVALID_REQ" => call[t].reply[1].status = 400
            /\ call[t].status \in {"OK", "REJECTED", "INVALID_REQ"}

\* C30's case: a request has been answered 403.
C30_Witness ==
    \E t \in Threads :
        /\ Replied(t)
        /\ call[t].status = "REJECTED"
        /\ call[t].reply[1].status = 403

----------------------------------------------------------------------------
(* The outcome of add_theaters_to_movie.                                   *)

\* C31: outcome of add_theaters_to_movie(movie_id, theater_ids).  It fails
\* if movie_id is not an id of the movies table, if an id of theater_ids is
\* not an id of the theaters table, or if an id of theater_ids is already
\* assigned to the movie; otherwise it succeeds and creates exactly one room
\* per id of theater_ids.
C31_AssignOutcome ==
    \A t \in Threads :
        (pc[t] = "ret" /\ call[t].op = "add_theaters_to_movie")
        => LET pre == call[t].pre_store
               m == call[t].movie_id
               ths == call[t].theaters
               UnknownMovie == ~StringIdMap_has_id(pre.movie_list, m)
               UnknownTheater ==
                    \E th \in ths : ~StringIdMap_has_id(pre.theater_list, th)
               AlreadyAssigned ==
                    m \in DOMAIN pre.rooms /\ \E th \in ths : th \in DOMAIN pre.rooms[m]
           IN IF UnknownMovie \/ UnknownTheater \/ AlreadyAssigned
              THEN call[t].result # "OK"
              ELSE /\ call[t].result = "OK"
                   /\ RoomKeys(rooms) \ RoomKeys(pre.rooms)
                            = {<<m, th>> : th \in ths}

----------------------------------------------------------------------------
(* The rooms add_theaters_to_movie creates, and what the calls that add    *)
(* names leave alone.                                                      *)

\* The seat numbers of a room, ascending, and the listing of a room whose
\* seats are all available.
AllSeats == [i \in 1..SEATS_PER_ROOM |-> i - 1]
FullListing == CommaSeparated(AllSeats) \o CBS_EOL

\* Thread t is at the return of a successful add_theaters_to_movie.
Assigned(t) ==
    /\ pc[t] = "ret"
    /\ call[t].op = "add_theaters_to_movie"
    /\ call[t].result = "OK"

\* C32: a room is created fully available.  At the return of a successful
\* add_theaters_to_movie(m, T), for every t in T all SEATS_PER_ROOM seats of
\* room (m, t) are available and its listing is 0,1,...,SEATS_PER_ROOM-1;
\* the seats and the listing of every room that existed are as they were.
C32_RoomCreatedAvailable ==
    \A t \in Threads :
        Assigned(t) =>
            /\ \A th \in call[t].theaters :
                /\ HasRoom(rooms, call[t].movie_id, th)
                /\ LET room == rooms[call[t].movie_id][th]
                   IN /\ DOMAIN room.seat_available = 0..(SEATS_PER_ROOM - 1)
                      /\ \A i \in DOMAIN room.seat_available : room.seat_available[i]
                      /\ room.seat_cache = FullListing
            /\ \A k \in RoomKeys(call[t].pre_store.rooms) :
                /\ HasRoom(rooms, k[1], k[2])
                /\ RoomState(rooms[k[1]][k[2]])
                        = RoomState(call[t].pre_store.rooms[k[1]][k[2]])

\* C32's case: a theater is assigned to a movie that has a room with a seat
\* booked.
C32_Witness ==
    \E t \in Threads :
        /\ Assigned(t)
        /\ call[t].theaters # {}
        /\ \E th \in DOMAIN call[t].pre_store.rooms[call[t].movie_id] :
                ~call[t].pre_store.rooms[call[t].movie_id][th].seat_available[0]

\* The ids a table whose counter is next_id gives to a batch of n names.
IdsFrom(next_id, n) == [i \in 1..n |-> next_id + i - 1]

\* C33: frame of the calls that add names.  A successful add_theaters
\* changes only the theater table: the movie table, the rooms with their
\* seats and the theater listings of the movies are as they were.  A
\* successful add_movies changes only the movie table and adds an empty map
\* of rooms and an empty theater listing for each new movie id: the theater
\* table and the rooms and listings of the movies that were there are as
\* they were.  The ids a table issues follow from its own counter alone.
C33_NameMutatorsFrame ==
    \A t \in Threads :
        LET pre == call[t].pre_store
            new == Range(call[t].ids)
        IN /\ (pc[t] = "ret" /\ call[t].op = "add_theaters" /\ call[t].result = "OK")
                => /\ movie_list = pre.movie_list
                   /\ rooms = pre.rooms
                   /\ theaters_per_movie_cache = pre.theaters_per_movie_cache
                   /\ call[t].ids = IdsFrom(pre.theater_list.next_id, Len(call[t].names))
           /\ (pc[t] = "ret" /\ call[t].op = "add_movies" /\ call[t].result = "OK")
                => /\ theater_list = pre.theater_list
                   /\ call[t].ids = IdsFrom(pre.movie_list.next_id, Len(call[t].names))
                   /\ DOMAIN rooms = DOMAIN pre.rooms \cup new
                   /\ DOMAIN theaters_per_movie_cache
                            = DOMAIN pre.theaters_per_movie_cache \cup new
                   /\ \A m \in new :
                        /\ m \notin DOMAIN pre.rooms
                        /\ DOMAIN rooms[m] = {}
                        /\ theaters_per_movie_cache[m] = ""
                   /\ \A m \in DOMAIN pre.rooms : rooms[m] = pre.rooms[m]
                   /\ \A m \in DOMAIN pre.theaters_per_movie_cache :
                        theaters_per_movie_cache[m] = pre.theaters_per_movie_cache[m]

\* C33's case: a movie is added to a store where a movie has a theater
\* listing and a room with a seat booked, and whose theater table has
\* issued more ids than its movie table.
C33_Witness ==
    \E t \in Threads :
        /\ pc[t] = "ret" /\ call[t].op = "add_movies" /\ call[t].result = "OK"
        /\ call[t].pre_store.theater_list.next_id > call[t].pre_store.movie_list.next_id
        /\ \E m \in DOMAIN call[t].pre_store.rooms :
            /\ call[t].pre_store.theaters_per_movie_cache[m] # ""
            /\ \E th \in DOMAIN call[t].pre_store.rooms[m] :
                    ~call[t].pre_store.rooms[m][th].seat_available[0]

\* C34: a movie with no theaters is listable.  Every id of the movie table
\* has a theater listing, the empty one as long as the movie has no room;
\* get_theaters_for_movie(m) of such a movie succeeds and returns the empty
\* listing: it does not throw as it does for an unknown movie.
C34_MovieWithoutTheatersListable ==
    /\ NoWriterInside =>
        \A m \in DOMAIN movie_list.id_strings :
            /\ m \in DOMAIN theaters_per_movie_cache
            /\ m \in DOMAIN rooms
            /\ DOMAIN rooms[m] = {} => theaters_per_movie_cache[m] = ""
    /\ \A t \in Threads :
        (/\ pc[t] = "ret"
         /\ call[t].op = "get_theaters_for_movie"
         /\ StringIdMap_has_id(movie_list, call[t].movie_id))
        => /\ call[t].result = "OK"
           /\ DOMAIN rooms[call[t].movie_id] = {} => call[t].value = ""

\* C34's case: get_theaters_for_movie returns for a movie that add_movies
\* added in a batch and that has no theater.
C34_Witness ==
    \E t \in Threads :
        /\ pc[t] = "ret"
        /\ call[t].op = "get_theaters_for_movie"
        /\ call[t].result = "OK"
        /\ call[t].value = ""
        /\ Cardinality(DOMAIN movie_list.id_strings) > 1
        /\ DOMAIN rooms[call[t].movie_id] = {}

----------------------------------------------------------------------------
(* Booking no seat.                                                        *)

\* C35: booking the empty seat set on an existing room returns ACCEPTED and
\* leaves the seats of the room and the content of its listing as they
\* were.
C35_EmptyBooking ==
    \A t \in Threads :
        (Booked(t) /\ call[t].seats = <<>>)
        => /\ call[t].result = "ACCEPTED"
           /\ TheRoom(t).seat_available = call[t].pre.seat_available
           /\ TheRoom(t).seat_cache = call[t].pre.seat_cache

\* C35's case: no seat is booked in a room where seats are taken.
C35_Witness ==
    \E t \in Threads :
        /\ Booked(t)
        /\ call[t].seats = <<>>
        /\ Available(call[t].pre.seat_available) # SeatIds

----------------------------------------------------------------------------
(* The book requests the parser refuses.                                   *)

\* The request names a seat more than once, or more than 20 seats.
NamesSeatTwiceOrTooMany(request) ==
    \/ \E i, j \in DOMAIN request : i # j /\ request[i] = request[j]
    \/ Len(request) > 20

\* C36: a book request that names the same seat more than once, or more
\* than 20 seats, is an invalid request for the parser.  The thread that
\* reads it goes to the reply with INVALID_REQ without entering
\* BookingData::book_seats, answers 400 once, and none of its steps changes
\* a room, even if every seat named is available.
C36_DuplicateSeatsInvalid ==
    [][\A t \in Threads :
        /\ (/\ pc[t] = "idle" /\ pc'[t] # "idle"
            /\ NamesSeatTwiceOrTooMany(call'[t].request))
            => /\ pc'[t] = "reply"
               /\ call'[t].op = "invalid"
               /\ call'[t].status = "INVALID_REQ"
               /\ rooms' = rooms
        /\ (/\ pc[t] # "idle" /\ pc'[t] # pc[t]
            /\ NamesSeatTwiceOrTooMany(call[t].request))
            => /\ rooms' = rooms
               /\ \/ /\ pc[t] = "reply" /\ pc'[t] = "replied"
                     /\ call'[t].reply
                            = <<reply(400, RequestInvalid_execute.body)>>
                  \/ pc[t] = "replied" /\ pc'[t] = "idle"
      ]_vars

\* C36's case: a request that names twice an available seat of the room of
\* a theater assigned to a movie has been answered.
C36_Witness ==
    /\ HasRoom(rooms, 1, 1)
    /\ StringIdMap_has_id(theater_list, 1)
    /\ rooms[1][1].seat_available[0]
    /\ \E t \in Threads :
        /\ pc[t] = "replied"
        /\ call[t].request = <<0, 0>>

----------------------------------------------------------------------------
(* The order of the locks.                                                 *)

\* Thread t holds the mutex of some room.
HoldsRoomLock(t) ==
    \E k \in RoomKeys(rooms) :
        \/ rooms[k[1]][k[2]].mutex.writer = t
        \/ t \in rooms[k[1]][k[2]].mutex.readers

\* Thread t is blocked: it has asked for the mutex of its room and the mutex
\* is not to be had.
WaitsForRoom(t) ==
    \/ pc[t] = "book_lock" /\ ~CinemaRoom_book_seats_lock_ready(TheRoom(t))
    \/ pc[t] = "seats_lock" /\ ~CinemaRoom_get_seats_lock_ready(TheRoom(t))

\* The mutexes of the rooms are granted fairly to thread t: if every other
\* thread lets go of the mutexes of the rooms again and again, t does not
\* wait for one for ever.
FairRoomLock(t) ==
    (\A u \in {1, 2} \ {t} : []<>(~HoldsRoomLock(u)))
        => []<>(pc[t] \notin {"book_lock", "seats_lock"})

\* C37: deadlock freedom and completion.  The mutex of a room is only asked
\* for and held by a thread that holds the store's mutex as a reader; a
\* thread that is not inside a call, so one that may ask for the store's
\* mutex, holds no mutex at all; a thread that waits for the mutex of a room
\* waits for threads that wait for nothing; and every call that has begun
\* by a thread to which the mutexes of the rooms are granted fairly returns
\* (with a result or an exception).
C37_DeadlockFreedom ==
    /\ [](\A t \in Threads :
            /\ (pc[t] \in {"book_lock", "seats_lock"} \/ HoldsRoomLock(t))
                    => t \in mutex.readers
            /\ pc[t] = "idle"
                    => /\ ~HoldsRoomLock(t)
                       /\ t \notin mutex.readers
                       /\ mutex.writer # t
            /\ WaitsForRoom(t)
                    => \E u \in Threads \ {t} :
                            /\ \/ TheRoom(t).mutex.writer = u
                               \/ u \in TheRoom(t).mutex.readers
                            /\ ~WaitsForRoom(u)
                            /\ pc[u] # "idle")
    /\ \A t \in {1, 2} :
            FairRoomLock(t) => ((pc[t] # "idle") ~> (pc[t] = "idle"))

\* C37's case: a thread waits for the mutex of a room where another thread
\* is booking.
C37_Witness ==
    \E t \in Threads :
        /\ WaitsForRoom(t)
        /\ \E u \in Threads : pc[u] = "book_mark" /\ TheRoom(t).mutex.writer = u

----------------------------------------------------------------------------
(* What a reader sees of the bookings.                                     *)

\* Thread t holds a listing that get_available_seats returned.
HoldsSeatListing(t) ==
    /\ pc[t] \in {"ret", "reply", "replied"}
    /\ call[t].op = "get_available_seats"
    /\ call[t].result = "OK"

\* Thread b is in a booking that takes its seats: past the first loop of
\* CinemaRoom::book_seats, or returned ACCEPTED.
TakesSeats(b) ==
    /\ call[b].op = "book_seats"
    /\ \/ pc[b] \in {"book_mark", "book_cache"}
       \/ call[b].result = "ACCEPTED"

\* The seats of a room of which those of taken are taken and no other.
SeatsWithout(taken) == [i \in SeatIds |-> i \notin taken]

\* C38: a reader never observes a partially applied booking.  Every listing
\* returned by get_available_seats(m, t) is the listing of some seats of
\* the room that, for each booking of the room that takes a set S of seats,
\* has either all the seats of S or none of them.
C38_NoPartialBooking ==
    \A t \in Threads :
        HoldsSeatListing(t) =>
            \E taken \in SUBSET (setup.seats \cap SeatIds) :
                /\ call[t].value = SeatListing(SeatsWithout(taken))
                /\ \A b \in Threads :
                    (/\ TakesSeats(b)
                     /\ call[b].movie_id = call[t].movie_id
                     /\ call[b].theater_id = call[t].theater_id)
                    => \/ Range(call[b].seats) \cap taken = {}
                       \/ Range(call[b].seats) \subseteq taken

\* C38's case: a thread holds a listing of a room while another thread is
\* half way through the booking of two seats of the room: they are marked
\* and the listing of the room is not rebuilt yet.
C38_Witness ==
    \E t, b \in Threads :
        /\ HoldsSeatListing(t)
        /\ TakesSeats(b)
        /\ pc[b] = "book_cache"
        /\ Len(call[b].seats) = 2
        /\ call[b].movie_id = call[t].movie_id
        /\ call[b].theater_id = call[t].theater_id
        /\ StringIdMap_has_id(theater_list, call[t].theater_id)

----------------------------------------------------------------------------
(* The keys of the maps.                                                   *)

\* The names of a table are the values of its id to name map, as many as
\* its ids.
NamesAreValues(table) ==
    /\ table.strings = Range(table.id_strings)
    /\ Cardinality(table.strings) = Cardinality(DOMAIN table.id_strings)

\* C39: key-set agreement.  Whenever no thread is inside add_movies,
\* add_theaters, add_theaters_to_movie or clear, the keys of rooms, the
\* keys of theaters_per_movie_cache and the ids of the movie table are the
\* same set, and the names of each table are the values of its id to name
\* map, as many as its ids.
C39_KeySetAgreement ==
    NoWriterInside =>
        /\ DOMAIN rooms = DOMAIN movie_list.id_strings
        /\ DOMAIN theaters_per_movie_cache = DOMAIN movie_list.id_strings
        /\ NamesAreValues(movie_list)
        /\ NamesAreValues(theater_list)

\* C39's case: no writer is inside, the movie table has two movies and a
\* theater is assigned to one of them.
C39_Witness ==
    /\ NoWriterInside
    /\ Cardinality(DOMAIN movie_list.id_strings) >= 2
    /\ theater_list.strings # {}
    /\ \E m \in DOMAIN rooms : DOMAIN rooms[m] # {}

----------------------------------------------------------------------------
(* The names after clear.                                                  *)

\* The ids a table returned before its last clear, and since.
IssuedBeforeClear(tb) == {issued[tb][j] : j \in 1..issued[tb \o "_cleared"]}
IssuedSinceClear(tb) ==
    {issued[tb][j] : j \in (issued[tb \o "_cleared"] + 1)..Len(issued[tb])}

\* C40: clear makes names reusable.  An add of names the table does not
\* hold now, whether or not it held them before a clear, does not fail; the
\* ids it returns are none of those returned before the clear; and the table
\* and its listing then hold the entries added since the clear and no
\* other, the new ones with the names of the call.
C40_ClearMakesNamesReusable ==
    \A t \in Threads :
        (/\ pc[t] = "ret"
         /\ call[t].op \in {"add_movies", "add_theaters"}
         /\ Range(call[t].names) \cap call[t].pre_table.strings = {})
        => LET tb == IF call[t].op = "add_movies" THEN "movie_list"
                     ELSE "theater_list"
               table == TableOf(call[t].op)
           IN /\ call[t].result = "OK"
              /\ Range(call[t].ids) \cap IssuedBeforeClear(tb) = {}
              /\ DOMAIN table.id_strings = IssuedSinceClear(tb)
              /\ \A i \in DOMAIN call[t].ids :
                    table.id_strings[call[t].ids[i]] = call[t].names[i]
              /\ \A id \in DOMAIN call[t].pre_table.id_strings :
                    table.id_strings[id] = call[t].pre_table.id_strings[id]
              /\ table.strings = Range(table.id_strings)
              /\ TableListingAgrees(table)

\* C40's case: the only theater name there is has been added, the store
\* cleared, and the name added again.
C40_Witness ==
    \E t \in Threads :
        /\ pc[t] = "ret"
        /\ call[t].op = "add_theaters"
        /\ call[t].result = "OK"
        /\ call[t].names # <<>>
        /\ issued.theater_list_cleared >= 1

====
